---- MODULE Spec2Model ----
(***************************************************************************)
(* Per-user session state machine of the Nebular Cassini bot: navigation   *)
(* stack, administrative content locks, progress tracking and the review   *)
(* queue, modelled from src/bot.                                           *)
(*                                                                         *)
(* Strings.  A callback parameter is kept as the list of its "|"-separated *)
(* fields, each field the list of its ":"-separated tokens, so             *)
(*   "BIO:Grade 10:Unit 1"        is  << <<"BIO","Grade 10","Unit 1">> >>  *)
(*   "TOGGLE_UNIT|BIO_G10_U1"     is  << <<"TOGGLE_UNIT">>,                *)
(*                                       <<"BIO_G10_U1">> >>               *)
(* and None is << >>.  The substring, replace and regular-expression       *)
(* tests the code applies to a token are the Tok* tables below.  A unit id *)
(* "BIO_G10_U1" is the triple <<"BIO","10","1">>, a subject lock target    *)
(* "Biology:10" the pair <<"Biology","10">>, a feature target <<name>>.    *)
(***************************************************************************)
EXTENDS Integers, Sequences, FiniteSets, TLC

VARIABLES
    sessions,   \* sessions table: telegram user -> Session row
    locks,      \* system_locks table: <<lock_type, lock_target>> -> "absent" | "on" | "off"
    progress,   \* progress table: <<user, unit_id>> -> Progress row or NoRow
    review,     \* review_queue table: sequence of rows in insertion (id) order
    last,       \* what the last handled update was and how it was answered
    clock,      \* time.time() and datetime.utcnow(), in seconds
    users,      \* users table: telegram user -> User row
    dispatcher  \* the Updater's update_queue and the handler calls in progress

vars == <<sessions, locks, progress, review, last, clock, users, dispatcher>>

(***************************************************************************)
(* Users and configuration                                                 *)
(***************************************************************************)
Users == {"admin", "student"}

ADMIN_IDS == {"admin"}

NoParam == << >>

NoRow == [exists |-> FALSE]

(***************************************************************************)
(* Token tables: what the string tests of lock_manager.py answer on each   *)
(* token the model's callbacks are built from.                             *)
(***************************************************************************)
\* p.replace("Grade", "").replace("G", "").strip(), kept when it isdigit()
\* and int() of it is in [9, 10, 11, 12]; "" otherwise
TokCleanGrade(p) ==
    CASE p = "Grade 10" -> "10"
      [] p = "Grade 9"  -> "9"
      [] p = "G10"      -> "10"
      [] p = "10"       -> "10"
      [] p = "9"        -> "9"
      [] OTHER          -> ""

\* str(param).isdigit() and int(param) in [9,10,11,12], for a one-token param
TokIsGradeDigits(p) == p \in {"9", "10"}

\* word in p, for the words the evaluator searches a parameter for
TokContains(p, word) ==
    CASE word = "QUIZ"     -> p \in {"START_RANDOM_QUIZ"}
      [] word = "SPEEDRUN" -> p \in {"SPEEDRUN_LAUNCH"}
      [] word = "SURVIVAL" -> FALSE
      [] word = "FILE"     -> FALSE
      [] word = "MP"       -> FALSE
      [] word = "G"        -> p \in {"Grade 10", "Grade 9", "G10", "TOGGLE_UNIT",
                                     "BIO_G10_U1", "BIO_G10_U2", "TOGGLE_SUBJECT",
                                     "TOGGLE_FEATURE"}
      [] word = "U"        -> p \in {"Unit 1", "Unit 2", "TOGGLE_UNIT", "BIO_G10_U1",
                                     "BIO_G10_U2", "TOGGLE_SUBJECT", "TOGGLE_FEATURE",
                                     "START_RANDOM_QUIZ", "SPEEDRUN_LAUNCH"}
      [] OTHER             -> FALSE

\* code in str(p).upper(), for a code of subj_map
TokUpperContains(p, code) ==
    code = "BIO" /\ p \in {"BIO", "Biology", "BIO_G10_U1", "BIO_G10_U2", "START_BIO"}

\* re.findall(r'([A-Z]+)_G([0-9]+)_U([0-9]+)', p) as a sequence of unit ids
TokUnitIds(p) ==
    CASE p = "BIO_G10_U1" -> << <<"BIO", "10", "1">> >>
      [] p = "BIO_G10_U2" -> << <<"BIO", "10", "2">> >>
      [] OTHER            -> << >>

\* p.replace("Unit", "").replace("U", "").strip()
TokStripUnit(p) ==
    CASE p = "Unit 1" -> "1"
      [] p = "Unit 2" -> "2"
      [] OTHER        -> p

\* p.replace("Grade", "").replace("G", "").strip()
TokStripGrade(p) ==
    CASE p = "Grade 10" -> "10"
      [] p = "Grade 9"  -> "9"
      [] p = "G10"      -> "10"
      [] OTHER          -> p

\* p.replace("START_", "")
TokStripStart(p) ==
    CASE p = "START_3"   -> "3"
      [] p = "START_BIO" -> "BIO"
      [] OTHER           -> p

\* int(p) of a token of digits
TokInt(p) ==
    CASE p = "3"  -> 3
      [] p = "9"  -> 9
      [] p = "10" -> 10
      [] OTHER    -> 0

subj_map ==
    [code \in {"BIO", "CHEM", "PHYS", "MATH"} |->
        CASE code = "BIO"  -> "Biology"
          [] code = "CHEM" -> "Chemistry"
          [] code = "PHYS" -> "Physics"
          [] OTHER         -> "Mathematics"]

(***************************************************************************)
(* Lock Evaluator: utils/lock_manager.py                                   *)
(***************************************************************************)
RECURSIVE Flatten(_)
\* str(param).replace("|", ":").split(":")
Flatten(param) ==
    IF param = << >> THEN << >> ELSE Head(param) \o Flatten(Tail(param))

\* word in param (no searched word contains a delimiter)
ParamContains(param, word) ==
    \E i \in 1..Len(Flatten(param)) : TokContains(Flatten(param)[i], word)

MaxOf(S) == CHOOSE m \in S : \A n \in S : n <= m

MinOf(S) == CHOOSE m \in S : \A n \in S : m <= n

feature_map(screen) ==
    CASE screen \in {"SCR_GAMEMODE", "SCR_SPEEDRUN_SETUP", "SCR_SPEEDRUN_SUBJECTS",
                     "SCR_SPEEDRUN_COUNTS", "SCR_SURVIVAL_SETUP", "SCR_GAME_PRES"}
                                    -> "ADVANCED_PRACTICE"
      [] screen = "SCR_REVIEW_HUB"  -> "REVIEW_HUB"
      [] screen = "SCR_PDF_VAULT"   -> "PDFS_AND_FILES"
      [] screen = "SCR_RANKING"     -> "LEADERBOARD"
      [] screen \in {"SCR_MULTIPLAYER_HUB", "SCR_MP_SUBJ_SELECT", "SCR_INVITES"}
                                    -> "PRACTICE_WITH_FRIENDS"
      [] screen = "SCR_AI_CHAT"     -> "AI_TUTOR"
      [] OTHER                      -> ""

content_screens ==
    {"SCR_UNITS", "SCR_QUIZ_PRES", "SCR_TOPIC_SELECTION", "SCR_UNIT_START",
     "SCR_REVIEW_HUB", "SCR_SPEEDRUN_SUBJECTS", "SCR_SURVIVAL_SETUP",
     "SCR_PDF_VAULT", "SCR_RANDOM_SETUP"}

unit_screens == {"SCR_QUIZ_PRES", "SCR_PDF_VAULT", "SCR_GAME_PRES"}

\* screen.startswith("SCR_LOCK_") or screen.startswith("SCR_ADMIN_")
IsAdminScreen(screen) ==
    screen \in {"SCR_LOCK_FEATURES", "SCR_LOCK_SUBJECTS", "SCR_LOCK_UNITS",
                "SCR_LOCK_UNIT_LIST", "SCR_ADMIN_FLAGS"}

\* a row of system_locks with this type and target and is_locked == True
ActiveLock(lk, type, target) ==
    <<type, target>> \in DOMAIN lk /\ lk[<<type, target>>] = "on"

\* the feature the attempt is checked against (lines 54-60)
TargetFeature(action, screen, param) ==
    IF action = "ACT" /\ param # NoParam /\ ParamContains(param, "MP")
    THEN "PRACTICE_WITH_FRIENDS"
    ELSE IF action = "ACT" /\ param # NoParam
            /\ (ParamContains(param, "SPEEDRUN") \/ ParamContains(param, "SURVIVAL"))
    THEN "ADVANCED_PRACTICE"
    ELSE feature_map(screen)

\* the grade read out of the parameter (lines 79-91), "" when there is none
GradeFromParam(param) ==
    IF param = NoParam THEN ""
    ELSE IF Len(Flatten(param)) = 1 /\ TokIsGradeDigits(Flatten(param)[1])
    THEN Flatten(param)[1]
    ELSE LET parts == Flatten(param)
             hits  == {i \in 1..Len(parts) : TokCleanGrade(parts[i]) # ""}
         IN  IF hits = {} THEN "" ELSE TokCleanGrade(parts[MinOf(hits)])

subj_codes == <<"BIO", "CHEM", "PHYS", "MATH">>

\* the first code of subj_map, in its order, found in str(param).upper()
\* (lines 118-123), "" when there is none
SubjectFromParam(param) ==
    IF param = NoParam THEN ""
    ELSE LET parts == Flatten(param)
             hits  == {c \in 1..Len(subj_codes) :
                          \E i \in 1..Len(parts) : TokUpperContains(parts[i], subj_codes[c])}
         IN  IF hits = {} THEN "" ELSE subj_codes[MinOf(hits)]

\* the unit ids the parameter names (lines 148-173): the CODE_G#_U# pattern
\* first, the delimited parse when the pattern finds nothing
RECURSIVE PatternIds(_)
PatternIds(parts) ==
    IF parts = << >> THEN {}
    ELSE {TokUnitIds(Head(parts))[i] : i \in 1..Len(TokUnitIds(Head(parts)))}
         \cup PatternIds(Tail(parts))

DelimitedIds(param) ==
    LET parts == Flatten(param)
        S == {i \in 1..Len(parts) : parts[i] \in DOMAIN subj_map}
        G == {i \in 1..Len(parts) : parts[i] \notin DOMAIN subj_map
                                     /\ TokContains(parts[i], "G")}
        U == {i \in 1..Len(parts) : parts[i] \notin DOMAIN subj_map
                                     /\ ~TokContains(parts[i], "G")
                                     /\ TokContains(parts[i], "U")}
    IN  IF Len(parts) > 1 /\ S # {} /\ G # {} /\ U # {}
           /\ TokStripGrade(parts[MaxOf(G)]) # ""
           /\ TokStripUnit(parts[MaxOf(U)]) # ""
        THEN {<<parts[MaxOf(S)], TokStripGrade(parts[MaxOf(G)]),
                TokStripUnit(parts[MaxOf(U)])>>}
        ELSE {}

\* mutant: only the CODE_G#_U# pattern is recognised
PotentialIds_PatternOnly(param) == PatternIds(Flatten(param))

PotentialIds(param) ==
    IF PatternIds(Flatten(param)) # {} THEN PatternIds(Flatten(param))
    ELSE DelimitedIds(param)

\* what a matched lock answers: a block, or for an administrator a pass
\* with the bypass notice
Verdict(telegram_id, kind, target) ==
    IF telegram_id \in ADMIN_IDS
    THEN [blocked |-> FALSE, reason |-> <<"ADMIN_BYPASS", kind, target>>, raised |-> "no"]
    ELSE [blocked |-> TRUE,  reason |-> <<"LOCKED", kind, target>>, raised |-> "no"]

NotLocked == [blocked |-> FALSE, reason |-> << >>, raised |-> "no"]

\* mutant: an error blocks the request
FailOpen_Closed == [blocked |-> TRUE, reason |-> << >>, raised |-> "caught"]

\* except Exception: return False, ""
FailOpen == [blocked |-> FALSE, reason |-> << >>, raised |-> "caught"]

\* the queries inside the try block that can raise
FaultPoints == {"none", "feature", "user", "subject", "unit"}

\* mutant: the lock kinds are tried in the order UNIT, SUBJECT, FEATURE
IsContentLocked_UnitFirst(lk, telegram_id, action, screen, param, fault) ==
    LET target_feature == TargetFeature(action, screen, param)
        target_grade == GradeFromParam(param)
        code == SubjectFromParam(param)
        potential_ids == IF screen \in unit_screens /\ param # NoParam
                         THEN PotentialIds(param) ELSE {}
    IN  IF IsAdminScreen(screen) THEN NotLocked
        ELSE IF \E id \in potential_ids : ActiveLock(lk, "UNIT", id)
             THEN Verdict(telegram_id, "UNIT", << >>)
        ELSE IF code # "" /\ target_grade # ""
                /\ ActiveLock(lk, "SUBJECT", <<subj_map[code], target_grade>>)
             THEN Verdict(telegram_id, "SUBJECT", <<subj_map[code], target_grade>>)
        ELSE IF target_feature # "" /\ ActiveLock(lk, "FEATURE", <<target_feature>>)
             THEN Verdict(telegram_id, "FEATURE", <<target_feature>>)
        ELSE NotLocked

\* is_content_locked(telegram_id, action, screen, param): (is_locked, reason).
\* fault names the store access that raises in this call, "none" for a
\* call in which the store works.  The user row of the grade fallback is
\* looked up by User.id == telegram_id, the primary key compared with the
\* Telegram id, so it finds no row and leaves the grade unset.
IsContentLocked(lk, telegram_id, action, screen, param, fault) ==
    LET target_feature == TargetFeature(action, screen, param)
        grade_from_param == GradeFromParam(param)
        wants_user_grade ==
            screen \in content_screens
            \/ (action = "ACT" /\ (ParamContains(param, "QUIZ")
                                   \/ ParamContains(param, "SPEEDRUN")
                                   \/ ParamContains(param, "SURVIVAL")))
        \* "QUIZ" in param with param None is a TypeError
        fallback_raises ==
            grade_from_param = "" /\ screen \notin content_screens
            /\ action = "ACT" /\ param = NoParam
        target_grade == grade_from_param
        code == SubjectFromParam(param)
        subject_target == <<subj_map[code], target_grade>>
        unit_raises ==
            screen \notin unit_screens /\ action = "ACT" /\ param = NoParam
        wants_units ==
            screen \in unit_screens
            \/ (action = "ACT" /\ (ParamContains(param, "QUIZ")
                                   \/ ParamContains(param, "FILE")
                                   \/ ParamContains(param, "SPEEDRUN")))
        potential_ids == IF wants_units /\ param # NoParam THEN PotentialIds(param) ELSE {}
    IN  IF IsAdminScreen(screen) THEN NotLocked
        ELSE IF target_feature # "" /\ fault = "feature" THEN FailOpen
        ELSE IF target_feature # "" /\ ActiveLock(lk, "FEATURE", <<target_feature>>)
             THEN Verdict(telegram_id, "FEATURE", <<target_feature>>)
        ELSE IF fallback_raises THEN FailOpen
        ELSE IF grade_from_param = "" /\ wants_user_grade /\ fault = "user" THEN FailOpen
        ELSE IF code # "" /\ target_grade # "" /\ fault = "subject" THEN FailOpen
        ELSE IF code # "" /\ target_grade # "" /\ ActiveLock(lk, "SUBJECT", subject_target)
             THEN Verdict(telegram_id, "SUBJECT", subject_target)
        ELSE IF unit_raises THEN FailOpen
        ELSE IF potential_ids # {} /\ fault = "unit" THEN FailOpen
        ELSE IF \E id \in potential_ids : ActiveLock(lk, "UNIT", id)
             THEN Verdict(telegram_id, "UNIT", << >>)
        ELSE NotLocked

(***************************************************************************)
(* Session store: database/crud.py                                         *)
(***************************************************************************)
\* the stack keeps its 10 most recent entries (crud.py:310)
MaxNavStack == 10

\* the row get_or_create_session inserts
NewSession ==
    [current_screen |-> "SCR_WELCOME", current_param |-> NoParam,
     navigation_stack |-> << >>, quiz_state |-> NoRow]

\* mutant: the stack is never cut back
KeepRecent_NoCut(nav_stack) == nav_stack

\* nav_stack[-10:] when len(nav_stack) > 10
KeepRecent(nav_stack) ==
    IF Len(nav_stack) > MaxNavStack
    THEN SubSeq(nav_stack, Len(nav_stack) - MaxNavStack + 1, Len(nav_stack))
    ELSE nav_stack

\* mutant: the previous screen is pushed also when the target is the
\* current screen
PushPrevious_Always(s, screen, add_to_nav_stack) ==
    IF add_to_nav_stack
    THEN KeepRecent(Append(s.navigation_stack, <<s.current_screen, s.current_param>>))
    ELSE s.navigation_stack

\* the navigation-stack branch of update_session_state (lines 305-312)
PushPrevious(s, screen, add_to_nav_stack) ==
    IF add_to_nav_stack /\ s.current_screen # screen
    THEN KeepRecent(Append(s.navigation_stack, <<s.current_screen, s.current_param>>))
    ELSE s.navigation_stack

\* update_session_state(user_id, screen, current_param, quiz_state=...,
\* add_to_nav_stack): screen "" and quiz_state NoRow stand for None
update_session_state(s, screen, current_param, quiz_state, add_to_nav_stack) ==
    LET s1 == IF screen # ""
              THEN [s EXCEPT !.navigation_stack = PushPrevious(s, screen, add_to_nav_stack),
                             !.current_screen = screen,
                             !.current_param = current_param]
              ELSE s
    IN  IF quiz_state # NoRow THEN [s1 EXCEPT !.quiz_state = quiz_state] ELSE s1

\* mutant: the top entry becomes current but stays on the stack
pop_navigation_stack_Peek(s) ==
    LET previous_item == s.navigation_stack[Len(s.navigation_stack)]
    IN  [s EXCEPT !.current_screen = previous_item[1],
                  !.current_param = previous_item[2]]

\* pop_navigation_stack: the session after the pop; the caller tests the
\* stack for emptiness (the None result)
pop_navigation_stack(s) ==
    LET previous_item == s.navigation_stack[Len(s.navigation_stack)]
    IN  [s EXCEPT !.navigation_stack = SubSeq(@, 1, Len(@) - 1),
                  !.current_screen = previous_item[1],
                  !.current_param = previous_item[2]]

(***************************************************************************)
(* Navigation helpers: handlers/navigation.py                              *)
(***************************************************************************)
\* navigate_to: rendered is FALSE when render_screen returned None (the
\* transport reported "Message is not modified"), and then nothing is saved
navigate_to(s, screen_id, param, add_to_stack, rendered) ==
    IF rendered
    THEN update_session_state(s, screen_id, param, NoRow, add_to_stack)
    ELSE s

\* mutant: the hub is stored only when the screen could be rendered
go_home_RenderOnly(s, rendered) ==
    navigate_to(s, "SCR_HUB", NoParam, FALSE, rendered)

\* go_home: the hub is written with update_session_state(screen="SCR_HUB");
\* the "[]" is assigned to the detached row get_or_create_session returned
\* and is never committed
go_home(s, rendered) ==
    navigate_to(update_session_state(s, "SCR_HUB", NoParam, NoRow, FALSE),
                "SCR_HUB", NoParam, FALSE, rendered)

go_back(s, rendered) ==
    IF s.navigation_stack # << >>
    THEN LET popped == pop_navigation_stack(s)
         IN  navigate_to(popped, popped.current_screen, popped.current_param,
                         FALSE, rendered)
    ELSE go_home(s, rendered)

(***************************************************************************)
(* Progress Tracker: database/crud.py                                      *)
(* An accuracy or percentage x is the pair <<n, d>> with x = n / d.        *)
(***************************************************************************)
\* PHASE_UNLOCK_THRESHOLD = 80.0 (config.py:23)
PHASE_UNLOCK_THRESHOLD == 80

\* x >= n for a percentage x = <<num, den>>
AtLeast(x, n) == x[1] >= n * x[2]

\* indexes of the rows of a table selected by (user_id, key)
ProgressRowsOf(table, user_id, unit_id) ==
    {i \in 1..Len(table) : table[i].user_id = user_id /\ table[i].unit_id = unit_id}

\* Progress(user_id, unit_id, ...) with the column defaults of models.py
NewProgress(user_id, unit_id) ==
    [user_id |-> user_id, unit_id |-> unit_id, current_phase |-> "BASELINE",
     baseline_accuracy |-> <<0, 1>>, balanced_accuracy |-> <<0, 1>>,
     exam_accuracy |-> <<0, 1>>,
     questions_attempted |-> 0, questions_correct |-> 0,
     completion_percent |-> <<0, 1>>,
     unlocked_balanced |-> FALSE, unlocked_exam |-> FALSE]

\* mutant: an unlock follows the latest accuracy and can be taken back
RecordPhase_Revocable(row, phase, accuracy) ==
    CASE phase = "BASELINE" ->
            [row EXCEPT !.baseline_accuracy = accuracy,
                        !.unlocked_balanced = AtLeast(accuracy, PHASE_UNLOCK_THRESHOLD)]
      [] phase = "BALANCED" ->
            [row EXCEPT !.balanced_accuracy = accuracy,
                        !.unlocked_exam = AtLeast(accuracy, PHASE_UNLOCK_THRESHOLD)]
      [] phase = "EXAM_BIASED" -> [row EXCEPT !.exam_accuracy = accuracy]
      [] OTHER -> row

\* mutant: exactly the threshold does not unlock
RecordPhase_Strict(row, phase, accuracy) ==
    CASE phase = "BASELINE" ->
            [row EXCEPT !.baseline_accuracy = accuracy,
                        !.unlocked_balanced =
                            IF accuracy[1] > PHASE_UNLOCK_THRESHOLD * accuracy[2]
                            THEN TRUE ELSE @]
      [] phase = "BALANCED" ->
            [row EXCEPT !.balanced_accuracy = accuracy,
                        !.unlocked_exam =
                            IF accuracy[1] > PHASE_UNLOCK_THRESHOLD * accuracy[2]
                            THEN TRUE ELSE @]
      [] phase = "EXAM_BIASED" -> [row EXCEPT !.exam_accuracy = accuracy]
      [] OTHER -> row

\* lines 180-190: the accuracy of the named phase and the unlock it earns
RecordPhase(row, phase, accuracy) ==
    CASE phase = "BASELINE" ->
            [row EXCEPT !.baseline_accuracy = accuracy,
                        !.unlocked_balanced =
                            IF AtLeast(accuracy, PHASE_UNLOCK_THRESHOLD) THEN TRUE ELSE @]
      [] phase = "BALANCED" ->
            [row EXCEPT !.balanced_accuracy = accuracy,
                        !.unlocked_exam =
                            IF AtLeast(accuracy, PHASE_UNLOCK_THRESHOLD) THEN TRUE ELSE @]
      [] phase = "EXAM_BIASED" -> [row EXCEPT !.exam_accuracy = accuracy]
      [] OTHER -> row

\* lines 192-198: current phase is the highest unlocked one
HighestUnlocked(row) ==
    [row EXCEPT !.current_phase =
        IF row.unlocked_exam THEN "EXAM_BIASED"
        ELSE IF row.unlocked_balanced THEN "BALANCED"
        ELSE "BASELINE"]

\* update_phase_progress(user_id, unit_id, subject, grade, phase, accuracy):
\* the progress table afterwards
update_phase_progress(table, user_id, unit_id, phase, accuracy) ==
    LET found == ProgressRowsOf(table, user_id, unit_id)
        t == IF found = {} THEN Append(table, NewProgress(user_id, unit_id)) ELSE table
        i == MinOf(ProgressRowsOf(t, user_id, unit_id))
    IN  [t EXCEPT ![i] = HighestUnlocked(RecordPhase(t[i], phase, accuracy))]

\* mutant: every attempt counts as correct
CountAttempt_AlwaysRight(row, correct) ==
    [row EXCEPT !.questions_attempted = @ + 1, !.questions_correct = @ + 1]

\* lines 233-241 of record_quiz_attempt
CountAttempt(row, correct) ==
    LET attempted == row.questions_attempted + 1
        right == IF correct THEN row.questions_correct + 1 ELSE row.questions_correct
    IN  [row EXCEPT !.questions_attempted = attempted,
                    !.questions_correct = right,
                    !.completion_percent =
                        IF attempted > 0 THEN <<right * 100, attempted>> ELSE @]

\* record_quiz_attempt(user_id, unit_id, subject, grade, correct)
record_quiz_attempt(table, user_id, unit_id, correct) ==
    LET found == ProgressRowsOf(table, user_id, unit_id)
        t == IF found = {} THEN Append(table, NewProgress(user_id, unit_id)) ELSE table
        i == MinOf(ProgressRowsOf(t, user_id, unit_id))
    IN  [t EXCEPT ![i] = CountAttempt(t[i], correct)]

(***************************************************************************)
(* Review Queue: database/crud.py                                          *)
(***************************************************************************)
ReviewRowsOf(table, user_id, question_id) ==
    {i \in 1..Len(table) : table[i].user_id = user_id
                           /\ table[i].question_id = question_id}

\* mutant: the existing row keeps its status
OverwriteStatus_Keep(row, status) == row

\* lines 425-433: the existing row takes the new status
OverwriteStatus(row, status) ==
    IF row.status # status THEN [row EXCEPT !.status = status] ELSE row

\* add_to_review_queue(user_id, question_id, status, subject, grade, unit)
add_to_review_queue(table, user_id, question_id, status) ==
    LET found == ReviewRowsOf(table, user_id, question_id)
    IN  IF found # {}
        THEN [table EXCEPT ![MinOf(found)] = OverwriteStatus(@, status)]
        ELSE Append(table, [user_id |-> user_id, question_id |-> question_id,
                            status |-> status])

\* mutant: nothing is deleted
remove_from_review_queue_Nothing(table, user_id, question_id) == table

\* remove_from_review_queue(user_id, question_id): delete every matching row
remove_from_review_queue(table, user_id, question_id) ==
    LET Keep(row) == ~(row.user_id = user_id /\ row.question_id = question_id)
    IN  SelectSeq(table, Keep)

\* get_review_queue_counts(user_id) without subject and grade filter
get_review_queue_counts(table, user_id) ==
    [status \in {"SKIPPED", "MISTAKE", "PINNED"} |->
        Cardinality({i \in 1..Len(table) : table[i].user_id = user_id
                                           /\ table[i].status = status})]

(***************************************************************************)
(* Users: database/crud.py.  A User row of the model carries total_xp,     *)
(* streak_count and last_activity (in seconds).                            *)
(***************************************************************************)
\* get_or_create_user, lines 37-47, for a user created at time 0
NewUser == [total_xp |-> 0, streak_count |-> 0, last_activity |-> 0]

\* add_xp(user_id, xp_amount)
add_xp(table, user_id, xp_amount) ==
    [table EXCEPT ![user_id].total_xp = @ + xp_amount]

\* timedelta(hours=24) and timedelta(hours=48), in seconds
Hours24 == 86400
Hours48 == 172800

\* mutant: a gap of exactly 24 hours does not count as a new day
StreakAfter_Strict(streak_count, time_diff) ==
    IF time_diff <= Hours24 THEN streak_count
    ELSE IF time_diff < Hours48 THEN streak_count + 1
    ELSE 1

\* lines 68-78 of update_user_streak: the streak after a gap of time_diff
StreakAfter(streak_count, time_diff) ==
    IF time_diff < Hours24 THEN streak_count
    ELSE IF Hours24 <= time_diff /\ time_diff < Hours48 THEN streak_count + 1
    ELSE 1

\* update_user_streak(user_id) called at time now; the function returns
\* the streak_count of the row it has written
update_user_streak(table, user_id, now) ==
    [table EXCEPT ![user_id] =
        [@ EXCEPT !.streak_count = StreakAfter(@, now - table[user_id].last_activity),
                  !.last_activity = now]]

(***************************************************************************)
(* Question supply: utils/question_engine.py.  The data directory of the   *)
(* model holds Biology, Grade 10, with "Unit 1" of UnitSize questions and  *)
(* "Unit 2" of ShortUnitSize questions (a unit has as many questions as    *)
(* its round files hold); question n of a unit has the id <<unit, n>> and  *)
(* the correct answer "A".                                                 *)
(***************************************************************************)
UnitSize == 10

ShortUnitSize == 3

\* len(all_questions) of load_unit_questions for the unit
UnitSizeOf(unit) == IF unit = "Unit 2" THEN ShortUnitSize ELSE UnitSize

list_units(subject, grade) ==
    IF subject = "Biology" /\ grade = "Grade 10" THEN <<"Unit 1", "Unit 2">> ELSE << >>

load_unit_questions(subject, grade, unit) ==
    IF \E i \in 1..Len(list_units(subject, grade)) : list_units(subject, grade)[i] = unit
    THEN [n \in 1..UnitSizeOf(unit) |-> <<unit, n>>]
    ELSE << >>

correct_answer(q) == "A"

Options == {"A", "B"}

\* grade.replace(' ', '')
NoSpaces(grade) ==
    CASE grade = "Grade 10" -> "Grade10"
      [] grade = "Grade 9"  -> "Grade9"
      [] OTHER              -> grade

\* unit.split(" ")[1] if " " in unit else "1"
UnitNum(unit) ==
    CASE unit = "Unit 1" -> "1"
      [] unit = "Unit 2" -> "2"
      [] OTHER           -> "1"

(***************************************************************************)
(* Game engine: handlers/game_handler.py.  db.now is time.time() of the    *)
(* call in whole seconds, db.shuffle the order random.shuffle produces.    *)
(***************************************************************************)
\* users.current_grade of the learners of the model, who study Grade 10
current_grade(u) == "10"

\* f"Grade {grade}"
GradeLabel(grade) ==
    CASE grade = "10" -> "Grade 10"
      [] grade = "9"  -> "Grade 9"
      [] OTHER        -> grade

\* subj_map.get(subject_code) of start_speedrun: "" stands for None, which
\* "MIXED" and every unknown code give
SubjectOf(subject_code) ==
    IF subject_code \in DOMAIN subj_map THEN subj_map[subject_code] ELSE ""

\* {"Biology": "BIO", ...}.get(s, s)
CodeOf(subject) ==
    IF \E code \in DOMAIN subj_map : subj_map[code] = subject
    THEN CHOOSE code \in DOMAIN subj_map : subj_map[code] = subject
    ELSE subject

AllSubjects == <<"Biology", "Chemistry", "Physics", "Mathematics">>

\* the two orders of random.shuffle the model draws from: the list as
\* collected and the list reversed
Shuffles == {0, 1}

Shuffled(qs, shuffle) ==
    IF shuffle = 0 THEN qs ELSE [i \in 1..Len(qs) |-> qs[Len(qs) + 1 - i]]

\* all_qs[:count]
Take(qs, count) == SubSeq(qs, 1, IF count < Len(qs) THEN count ELSE Len(qs))

\* the inner loop of _get_random_questions over the units of one subject
RECURSIVE UnitPool(_, _, _, _, _)
UnitPool(lk, subject, grade, units, i) ==
    IF i > Len(units) THEN << >>
    ELSE LET \* u.split(" ")[1] if " " in u else u
             unit_num == TokStripUnit(units[i])
             unit_id == <<CodeOf(subject), grade, unit_num>>
             locked == /\ <<"UNIT", unit_id>> \in DOMAIN lk
                       /\ lk[<<"UNIT", unit_id>>] = "on"
         IN  (IF locked THEN << >>
              ELSE load_unit_questions(subject, GradeLabel(grade), units[i]))
             \o UnitPool(lk, subject, grade, units, i + 1)

\* the outer loop over the subjects
RECURSIVE SubjectPool(_, _, _, _)
SubjectPool(lk, subjects, grade, i) ==
    IF i > Len(subjects) THEN << >>
    ELSE LET locked == /\ <<"SUBJECT", <<subjects[i], grade>> >> \in DOMAIN lk
                       /\ lk[<<"SUBJECT", <<subjects[i], grade>> >>] = "on"
         IN  (IF locked THEN << >>
              ELSE UnitPool(lk, subjects[i], grade,
                            list_units(subjects[i], GradeLabel(grade)), 1))
             \o SubjectPool(lk, subjects, grade, i + 1)

_get_random_questions(lk, grade, subject, count, shuffle) ==
    Take(Shuffled(SubjectPool(lk, IF subject # "" THEN <<subject>> ELSE AllSubjects,
                              grade, 1),
                  shuffle),
         count)

\* reasons show_game_summary is called with
GameSummaries ==
    {"SCR_GAME_SUM|TIME_UP", "SCR_GAME_SUM|ALL_DONE", "SCR_GAME_SUM|GAME_OVER",
     "SCR_GAME_SUM|COMPLETED"}

\* show_game_summary renders the stored state and writes none of it
\* xp = 20 if state["mode"] == "SURVIVAL" else 15
XpPerAnswer(mode) == IF mode = "SURVIVAL" THEN 20 ELSE 15

show_game_summary(db, u, reason) ==
    LET state == db.sessions[u].quiz_state
    IN  IF state = NoRow THEN db
        ELSE [db EXCEPT !.shown = reason,
                        !.score_shown = state.score,
                        !.xp_reward = state.score * XpPerAnswer(state.mode)]

present_game_question(db, u) ==
    LET state == db.sessions[u].quiz_state
    IN  IF state = NoRow THEN db
        ELSE IF state.mode = "SPEEDRUN" /\ db.now - state.start_time > state.duration
        THEN show_game_summary(db, u, "SCR_GAME_SUM|TIME_UP")
        ELSE IF state.current_index >= Len(state.questions)
        THEN show_game_summary(db, u, "SCR_GAME_SUM|ALL_DONE")
        ELSE [db EXCEPT !.shown = "SCR_GAME_PRES"]

start_speedrun(db, u, duration_seconds, subject_code, count, grade) ==
    LET active_grade == IF grade # "" THEN grade ELSE current_grade(u)
        subject == SubjectOf(subject_code)
        questions == _get_random_questions(db.locks, active_grade, subject, count,
                                           db.shuffle)
        quiz_state == [mode |-> "SPEEDRUN", duration |-> duration_seconds,
                       subject_code |-> subject_code, count |-> count,
                       start_time |-> db.now,
                       subject |-> IF subject # "" THEN subject ELSE "Mixed Science",
                       grade |-> GradeLabel(active_grade),
                       unit |-> IF duration_seconds <= 300 THEN "Sprint"
                                ELSE "Exam Mode",
                       unit_id |-> <<"SR", ToString(duration_seconds),
                                     ToString(db.now)>>,
                       questions |-> questions, current_index |-> 0,
                       score |-> 0, history |-> << >>]
    IN  IF questions = << >> THEN db
        ELSE present_game_question(
                [db EXCEPT !.sessions[u] =
                    update_session_state(@, "SCR_GAME_PRES", NoParam, quiz_state, FALSE),
                    !.writes = @ + 1],
                u)

\* the question count a survival run asks _get_random_questions for
SurvivalCount == 100

start_survival(db, u, subject_code, grade) ==
    LET active_grade == IF grade # "" THEN grade ELSE current_grade(u)
        \* subj_map.get(subject_code, subject_code)
        subject == IF subject_code \in DOMAIN subj_map THEN subj_map[subject_code]
                   ELSE subject_code
        questions == _get_random_questions(db.locks, active_grade, subject,
                                           SurvivalCount, db.shuffle)
        quiz_state == [mode |-> "SURVIVAL", subject |-> subject,
                       grade |-> GradeLabel(active_grade),
                       unit |-> "Survival Mode",
                       unit_id |-> <<"SURVIVAL", subject_code, ToString(db.now)>>,
                       questions |-> questions, current_index |-> 0,
                       score |-> 0, history |-> << >>]
    IN  IF questions = << >> THEN db
        ELSE present_game_question(
                [db EXCEPT !.sessions[u] =
                    update_session_state(@, "SCR_GAME_PRES", NoParam, quiz_state, FALSE),
                    !.writes = @ + 1],
                u)

\* the grace a speedrun answer gets for network lag, in seconds
GraceSeconds == 2

\* mutant: no grace
TimeIsUp_NoGrace(state, now) ==
    state.mode = "SPEEDRUN" /\ now - state.start_time > state.duration

\* lines 183-186 of handle_game_answer
TimeIsUp(state, now) ==
    state.mode = "SPEEDRUN" /\ now - state.start_time > state.duration + GraceSeconds

\* the step to the next question; the summary is shown without a write
\* when the list is used up
MoveOn(db, u, state, reason) ==
    IF state.current_index >= Len(state.questions)
    THEN show_game_summary(db, u, reason)
    ELSE present_game_question(
            [db EXCEPT !.sessions[u] =
                update_session_state(@, "", NoParam, state, FALSE),
                !.writes = @ + 1],
            u)

\* mutant: a wrong answer always moves on
WrongAnswer_MovesOn(db, u, state) ==
    MoveOn(db, u, [state EXCEPT !.current_index = @ + 1], "SCR_GAME_SUM|COMPLETED")

\* lines 206-221 of handle_game_answer
WrongAnswer(db, u, state) ==
    IF state.mode = "SURVIVAL"
    THEN show_game_summary(db, u, "SCR_GAME_SUM|GAME_OVER")
    ELSE MoveOn(db, u, [state EXCEPT !.current_index = @ + 1],
                "SCR_GAME_SUM|COMPLETED")

\* handle_game_answer; raises IndexError when current_index is past the
\* list
handle_game_answer(db, u, selected_opt) ==
    LET state == db.sessions[u].quiz_state
        q == state.questions[state.current_index + 1]
    IN  IF state = NoRow THEN db
        ELSE IF TimeIsUp(state, db.now)
        THEN show_game_summary(db, u, "SCR_GAME_SUM|TIME_UP")
        ELSE IF state.current_index >= Len(state.questions)
        THEN [db EXCEPT !.shown = "ERROR"]
        ELSE IF selected_opt = correct_answer(q)
        THEN MoveOn([db EXCEPT !.users = add_xp(@, u, XpPerAnswer(state.mode))], u,
                    [state EXCEPT !.score = @ + 1, !.current_index = @ + 1],
                    "SCR_GAME_SUM|ALL_DONE")
        ELSE WrongAnswer(db, u, state)

(***************************************************************************)
(* Quiz engine: handlers/quiz_handler.py.  Each operator maps the store    *)
(* db = [sessions, progress, review, locks, users] to the store after the   *)
(* call; db.shown is the screen the call rendered last, db.writes the      *)
(* number of update_session_state calls that carried a quiz_state,         *)
(* db.completions the number of update_phase_progress calls of summaries   *)
(* and db.xp_reward and db.score_shown the XP and the score the summary    *)
(* reported.                                                               *)
(***************************************************************************)
\* accuracy = (score / len(questions)) * 100
Accuracy(quiz_state) == <<quiz_state.score * 100, Len(quiz_state.questions)>>

\* lines 323-325 of show_quiz_summary
SummaryPhase(accuracy) ==
    IF AtLeast(accuracy, 95) THEN "EXAM_BIASED"
    ELSE IF AtLeast(accuracy, 80) THEN "BALANCED"
    ELSE "BASELINE"

\* xp_gained = int(accuracy / 10) * 10
xp_gained(accuracy) == (accuracy[1] \div (accuracy[2] * 10)) * 10

show_quiz_summary(db, u) ==
    LET quiz_state == db.sessions[u].quiz_state
    IN  IF quiz_state = NoRow THEN db
        ELSE [db EXCEPT !.progress =
                update_phase_progress(@, u, quiz_state.unit_id,
                                      SummaryPhase(Accuracy(quiz_state)),
                                      Accuracy(quiz_state)),
                        !.users = update_user_streak(@, u, db.now),
                        !.completions = @ + 1,
                        !.score_shown = quiz_state.score,
                        !.xp_reward = xp_gained(Accuracy(quiz_state)),
                        !.shown = "SCR_QUIZ_SUM"]

present_question(db, u, rendered) ==
    LET quiz_state == db.sessions[u].quiz_state
    IN  IF quiz_state = NoRow
        THEN [db EXCEPT !.sessions[u] = navigate_to(@, "SCR_HUB", NoParam, TRUE, rendered)]
        ELSE IF quiz_state.current_index >= Len(quiz_state.questions)
        THEN show_quiz_summary(db, u)
        ELSE [db EXCEPT !.shown = "SCR_QUIZ_PRES"]

start_quiz_session(db, u, subject_code, grade, unit, rendered) ==
    LET subject == IF subject_code \in DOMAIN subj_map THEN subj_map[subject_code]
                   ELSE subject_code
        questions == load_unit_questions(subject, grade, unit)
        quiz_state == [mode |-> "STANDARD", subject_code |-> subject_code,
                       subject |-> subject, grade |-> grade, unit |-> unit,
                       unit_id |-> <<subject_code, NoSpaces(grade), UnitNum(unit)>>,
                       questions |-> questions, current_index |-> 0,
                       score |-> 0, history |-> << >>]
    IN  IF questions = << >> THEN db
        ELSE present_question(
                [db EXCEPT !.sessions[u] =
                    update_session_state(@, "", NoParam, quiz_state, FALSE),
                    !.writes = @ + 1],
                u, rendered)

\* mutant: a game run is not handed to the game handler and its answer is
\* recorded like an answer of a unit quiz
handle_answer_selection_AllModes(db, u, selected_opt) ==
    LET quiz_state == db.sessions[u].quiz_state
        q == quiz_state.questions[quiz_state.current_index + 1]
        is_correct == selected_opt = correct_answer(q)
    IN  IF quiz_state = NoRow \/ quiz_state.current_index >= Len(quiz_state.questions)
        THEN db
        ELSE [db EXCEPT
                !.progress = record_quiz_attempt(@, u, <<quiz_state.unit>>, is_correct),
                !.review = IF is_correct THEN remove_from_review_queue(@, u, q)
                           ELSE add_to_review_queue(@, u, q, "MISTAKE"),
                !.shown = "SCR_QUIZ_FB"]

\* handle_answer_selection for a unit quiz or review run; raises IndexError
\* (the router answers "under repair" and nothing is written) when
\* current_index is past the list
handle_answer_selection(db, u, selected_opt) ==
    LET quiz_state == db.sessions[u].quiz_state
        idx == quiz_state.current_index
        q == quiz_state.questions[idx + 1]
        is_correct == selected_opt = correct_answer(q)
        answered == [quiz_state EXCEPT
                        !.score = IF is_correct THEN @ + 1 ELSE @,
                        !.history = Append(@, [q_id |-> q, selected |-> selected_opt,
                                               is_correct |-> is_correct])]
    IN  IF quiz_state = NoRow THEN db
        ELSE IF quiz_state.mode \in {"SPEEDRUN", "SURVIVAL"}
        THEN handle_game_answer(db, u, selected_opt)
        ELSE IF idx >= Len(quiz_state.questions) THEN [db EXCEPT !.shown = "ERROR"]
        ELSE [db EXCEPT
                !.progress = record_quiz_attempt(@, u, <<quiz_state.unit>>, is_correct),
                !.users = IF is_correct THEN add_xp(@, u, 10) ELSE @,
                !.review = IF is_correct THEN remove_from_review_queue(@, u, q)
                           ELSE add_to_review_queue(@, u, q, "MISTAKE"),
                !.sessions[u] = update_session_state(@, "", NoParam, answered, FALSE),
                    !.writes = @ + 1,
                !.shown = "SCR_QUIZ_FB"]

\* handle_answer_selection when update_session_state at line 217 raises:
\* record_quiz_attempt, add_xp and the review queue call have each committed
\* in a session of their own, the quiz_state is not written and the router
\* answers "under repair" (callback_router.py 90-95)
handle_answer_selection_WriteFails(db, u, selected_opt) ==
    LET handled == handle_answer_selection(db, u, selected_opt)
    IN  [handled EXCEPT !.sessions = db.sessions,
                        !.writes = db.writes,
                        !.shown = "ERROR"]

\* mutant: the skip moves on without a review queue entry
skip_question_Unrecorded(db, u, rendered) ==
    LET quiz_state == db.sessions[u].quiz_state
    IN  IF quiz_state = NoRow THEN db
        ELSE IF quiz_state.current_index >= Len(quiz_state.questions)
        THEN show_quiz_summary(db, u)
        ELSE present_question(
                [db EXCEPT
                    !.sessions[u] =
                        update_session_state(@, "", NoParam,
                            [quiz_state EXCEPT !.current_index = @ + 1], FALSE),
                    !.writes = @ + 1],
                u, rendered)

\* skip_question: lines 258-293
skip_question(db, u, rendered) ==
    LET quiz_state == db.sessions[u].quiz_state
        idx == quiz_state.current_index
        q == quiz_state.questions[idx + 1]
        skipped == [quiz_state EXCEPT
                        !.history = Append(@, [q_id |-> q, selected |-> "SKIP",
                                               is_correct |-> FALSE]),
                        !.current_index = @ + 1]
    IN  IF quiz_state = NoRow THEN db
        ELSE IF idx >= Len(quiz_state.questions) THEN show_quiz_summary(db, u)
        ELSE present_question(
                [db EXCEPT
                    !.review = add_to_review_queue(@, u, q, "SKIPPED"),
                    !.sessions[u] = update_session_state(@, "", NoParam, skipped, FALSE),
                    !.writes = @ + 1],
                u, rendered)

\* mutant: the index moves past a question
next_question_ByTwo(db, u, rendered) ==
    LET quiz_state == db.sessions[u].quiz_state
        advanced == [quiz_state EXCEPT !.current_index = @ + 2]
    IN  IF quiz_state = NoRow THEN db
        ELSE present_question(
                [db EXCEPT !.sessions[u] =
                    update_session_state(@, "", NoParam, advanced, FALSE),
                    !.writes = @ + 1],
                u, rendered)

next_question(db, u, rendered) ==
    LET quiz_state == db.sessions[u].quiz_state
        advanced == [quiz_state EXCEPT !.current_index = @ + 1]
    IN  IF quiz_state = NoRow THEN db
        ELSE present_question(
                [db EXCEPT !.sessions[u] =
                    update_session_state(@, "", NoParam, advanced, FALSE),
                    !.writes = @ + 1],
                u, rendered)

\* start_next_batch: the unit after the current one, or back to the units
IndexOfUnit(units, unit) ==
    LET hits == {i \in 1..Len(units) : units[i] = unit}
    IN  IF hits = {} THEN 0 ELSE MinOf(hits)

start_next_batch(db, u, rendered) ==
    LET quiz_state == db.sessions[u].quiz_state
        units == list_units(quiz_state.subject, quiz_state.grade)
        curr == IndexOfUnit(units, quiz_state.unit)
    IN  IF quiz_state = NoRow THEN db
        ELSE IF curr > 0 /\ curr + 1 <= Len(units)
        THEN start_quiz_session(db, u, quiz_state.subject_code, quiz_state.grade,
                                units[curr + 1], rendered)
        ELSE [db EXCEPT !.sessions[u] =
                navigate_to(@, "SCR_UNITS",
                            << <<quiz_state.subject_code, quiz_state.grade>> >>,
                            TRUE, rendered)]

(***************************************************************************)
(* Callback router: handlers/callback_router.py                            *)
(***************************************************************************)
\* param == word
IsWord(param, word) == param = << <<word>> >>

\* ":" in param
HasColon(param) == \E i \in 1..Len(param) : Len(param[i]) > 1

\* the lock_target string "CODE_G#_U#" of a unit, as its triple
UnitTarget(unit_id) ==
    IF TokUnitIds(unit_id) # << >> THEN TokUnitIds(unit_id)[1] ELSE <<unit_id>>

LockKeys ==
    {<<"FEATURE", <<"ADVANCED_PRACTICE">> >>,
     <<"SUBJECT", <<"Biology", "10">> >>,
     <<"UNIT", <<"BIO", "10", "1">> >>,
     <<"UNIT", <<"BIO", "10", "2">> >>}

\* lines 1474-1492, 1503-1521, 1535-1553: a missing row is created locked,
\* an existing row flips
ToggleLock(lk, type, target) ==
    IF <<type, target>> \notin DOMAIN lk THEN lk
    ELSE [lk EXCEPT ![<<type, target>>] = IF @ = "on" THEN "off" ELSE "on"]

game_screens ==
    {"SCR_SPEEDRUN_SETUP", "SCR_SURVIVAL_SETUP", "SCR_MULTIPLAYER_HUB",
     "SCR_MP_SUBJ_SELECT", "SCR_PROFILE_SETTINGS", "SCR_GRADE_SELECT"}

handle_navigation(db, u, screen, param, rendered) ==
    IF screen \in {"SCR_PDF_VAULT", "SCR_REVIEW_HUB"} /\ IsWord(param, "CURR_CONTEXT")
    THEN [db EXCEPT !.sessions[u] =
            navigate_to(@, screen, db.sessions[u].current_param, TRUE, rendered)]
    ELSE IF screen \in {"SCR_HUB", "HOME"}
    THEN [db EXCEPT !.sessions[u] = go_home(@, rendered)]
    ELSE IF screen = "BACK" \/ IsWord(param, "BACK")
    THEN [db EXCEPT !.sessions[u] = go_back(@, rendered)]
    ELSE IF screen = "SCR_QUIZ_PRES" /\ HasColon(param)
            /\ Len(param) = 1 /\ Len(param[1]) = 3
    THEN start_quiz_session(db, u, param[1][1], param[1][2], param[1][3], rendered)
    ELSE LET is_root == IsWord(param, "ROOT")
             add_to_stack == ~is_root \/ screen \in game_screens
         IN  [db EXCEPT !.sessions[u] =
                navigate_to(@, screen, IF is_root THEN NoParam ELSE param,
                            add_to_stack, rendered)]

\* the LOCK branch of handle_action (lines 1466-1575)
handle_lock_action(db, u, param, rendered) ==
    IF Len(param) = 2 /\ param[1] = <<"TOGGLE_FEATURE">>
    THEN [db EXCEPT !.locks = ToggleLock(@, "FEATURE", param[2]),
                    !.sessions[u] = navigate_to(@, "SCR_LOCK_FEATURES", NoParam,
                                                FALSE, rendered)]
    ELSE IF Len(param) = 2 /\ param[1] = <<"TOGGLE_SUBJECT">>
    THEN [db EXCEPT !.locks = ToggleLock(@, "SUBJECT", param[2]),
                    !.sessions[u] =
                        navigate_to(@, "SCR_LOCK_SUBJECTS",
                                    IF Len(param[2]) > 1 THEN << <<param[2][2]>> >>
                                    ELSE << <<"9">> >>,
                                    FALSE, rendered)]
    ELSE IF Len(param) = 2 /\ param[1] = <<"TOGGLE_UNIT">> /\ Len(param[2]) = 1
    THEN LET target == UnitTarget(param[2][1])
         IN  [db EXCEPT !.locks = ToggleLock(@, "UNIT", target),
                        !.sessions[u] =
                            IF Len(target) >= 2
                            THEN navigate_to(@, "SCR_LOCK_UNIT_LIST",
                                             << <<target[1], target[2]>> >>,
                                             FALSE, rendered)
                            ELSE navigate_to(@, "SCR_LOCK_UNITS", NoParam,
                                             FALSE, rendered)]
    ELSE db

\* the SPEEDRUN branch of handle_action for the legacy callback
\* "START_<seconds>:<subject>:<count>" (lines 378-382); any other parameter
\* of the model leaves the store alone
handle_speedrun_action(db, u, param) ==
    IF Len(param) = 1 /\ Len(param[1]) = 3 /\ TokStripStart(param[1][1]) # param[1][1]
    THEN start_speedrun(db, u, TokInt(TokStripStart(param[1][1])), param[1][2],
                        TokInt(param[1][3]), "")
    ELSE db

\* mutant: the run is started twice
handle_survival_action_Twice(db, u, param) ==
    IF Len(param) # 1 THEN db
    ELSE start_survival(start_survival(db, u, TokStripStart(param[1][1]), ""),
                        u, TokStripStart(param[1][1]), "")

\* the SURVIVAL branch of handle_action: "START_<grade>:<subject>" or
\* "START_<subject>" (lines 388-404)
handle_survival_action(db, u, param) ==
    IF Len(param) # 1 THEN db
    ELSE LET first == TokStripStart(param[1][1])
         IN  IF first \in {"9", "10", "11", "12"}
             THEN IF Len(param[1]) >= 2
                  THEN start_survival(db, u, param[1][2], first)
                  ELSE db
             ELSE start_survival(db, u, first, "")

\* handle_action: the branches the model's callbacks reach.  A callback
\* without a parameter raises AttributeError at param.startswith and the
\* router answers "under repair"; nothing is written.
handle_action(db, u, screen, param, rendered) ==
    IF param = NoParam THEN [db EXCEPT !.shown = "ERROR"]
    ELSE IF screen = "QUIZ" /\ IsWord(param, "LOAD_NEXT") THEN next_question(db, u, rendered)
    ELSE IF screen = "QUIZ" /\ IsWord(param, "SKIP") THEN skip_question(db, u, rendered)
    ELSE IF screen = "QUIZ" /\ IsWord(param, "LOAD_NEW_BATCH")
    THEN start_next_batch(db, u, rendered)
    ELSE IF screen = "SET" /\ IsWord(param, "TOGGLE_NOTIF")
    THEN [db EXCEPT !.sessions[u] =
            navigate_to(@, "SCR_SETTINGS", NoParam, FALSE, rendered)]
    ELSE IF screen = "LOCK" THEN handle_lock_action(db, u, param, rendered)
    ELSE IF screen = "SPEEDRUN" THEN handle_speedrun_action(db, u, param)
    ELSE IF screen = "SURVIVAL" THEN handle_survival_action(db, u, param)
    ELSE db

handle_answer(db, u, param) ==
    IF Len(param) = 1 /\ Len(param[1]) = 1
    THEN handle_answer_selection(db, u, param[1][1])
    ELSE db

\* lines 80-95 of route_callback
Dispatch(db, u, action, screen, param, rendered) ==
    CASE action = "NAV" -> handle_navigation(db, u, screen, param, rendered)
      [] action = "ACT" -> handle_action(db, u, screen, param, rendered)
      [] action = "ANS" -> handle_answer(db, u, param)
      [] OTHER          -> db

\* mutant: the verdict is ignored
route_callback_Anyway(db, verdict, u, action, screen, param, rendered) ==
    Dispatch(db, u, action, screen, param, rendered)

\* route_callback: the store after the update is handled; verdict is what
\* is_content_locked answered (lines 65-79)
route_callback(db, verdict, u, action, screen, param, rendered) ==
    IF verdict.blocked THEN db
    ELSE Dispatch(db, u, action, screen, param, rendered)

(***************************************************************************)
(* The system                                                              *)
(***************************************************************************)
Store == [sessions |-> sessions, progress |-> progress, review |-> review,
          locks |-> locks, users |-> users, now |-> clock, shuffle |-> 0,
          shown |-> "", writes |-> 0, completions |-> 0, xp_reward |-> 0,
          score_shown |-> 0]

\* Updater(BOT_TOKEN): nothing queued, nothing being handled
Idle == [update_queue |-> << >>, running |-> << >>, arrived |-> 0]

NoUpdate == [user |-> "", action |-> "", screen |-> "", param |-> NoParam,
             blocked |-> FALSE, reason |-> << >>, raised |-> "no", shown |-> "",
             writes |-> 0, completions |-> 0, xp_reward |-> 0, score_shown |-> 0]

Init ==
    /\ sessions = [u \in Users |-> NewSession]
    /\ locks = [k \in LockKeys |-> "absent"]
    /\ progress = << >>
    /\ review = << >>
    /\ last = NoUpdate
    /\ clock = 0
    /\ users = [u \in Users |-> NewUser]
    /\ dispatcher = Idle

\* one callback query handled from arrival to answer; shuffle is the order
\* random.shuffle produces in this call
UpdateWith(u, action, screen, param, fault, rendered, shuffle) ==
    \E verdict \in {IsContentLocked(locks, u, action, screen, param, fault)} :
    \E out \in {route_callback([Store EXCEPT !.shuffle = shuffle], verdict, u,
                               action, screen, param, rendered)} :
        /\ sessions' = out.sessions
        /\ progress' = out.progress
        /\ review' = out.review
        /\ locks' = out.locks
        /\ last' = [user |-> u, action |-> action, screen |-> screen,
                    param |-> param, blocked |-> verdict.blocked,
                    reason |-> verdict.reason, raised |-> verdict.raised,
                    shown |-> out.shown, writes |-> out.writes,
                    completions |-> out.completions, xp_reward |-> out.xp_reward,
                    score_shown |-> out.score_shown]
        /\ clock' = clock
        /\ users' = out.users
        /\ dispatcher' = dispatcher

Update(u, action, screen, param, fault, rendered) ==
    UpdateWith(u, action, screen, param, fault, rendered, 0)

(***************************************************************************)
(* Navigation: one learner moving between the hub, the statistics screen   *)
(* and the settings screen.                                                *)
(***************************************************************************)
NavOpen ==
    \E rendered \in BOOLEAN :
        Update("student", "NAV", "SCR_STATS", << <<"9">> >>, "none", rendered)

NavSettings ==
    \E rendered \in BOOLEAN :
        Update("student", "ACT", "SET", << <<"TOGGLE_NOTIF">> >>, "none", rendered)

NavHome ==
    \E rendered \in BOOLEAN :
        Update("student", "NAV", "SCR_HUB", NoParam, "none", rendered)

NavBack ==
    \E rendered \in BOOLEAN :
        Update("student", "NAV", "BACK", NoParam, "none", rendered)

NextNav == NavOpen \/ NavSettings \/ NavHome \/ NavBack

SpecNav == Init /\ [][NextNav]_vars


(***************************************************************************)
(* Locks: an administrator toggling locks while a learner navigates.       *)
(***************************************************************************)
NavDepth == 1

UnitOneParam == << <<"BIO", "Grade 10", "Unit 1">> >>
UnitTwoParam == << <<"BIO", "Grade 10", "Unit 2">> >>
SubjectParam == << <<"BIO", "Grade 10">> >>

Shallow(u) == Len(sessions[u].navigation_stack) < NavDepth

ToggleUnit ==
    \E rendered \in BOOLEAN :
        Update("admin", "ACT", "LOCK", << <<"TOGGLE_UNIT">>, <<"BIO_G10_U1">> >>,
               "none", rendered)

ToggleFeature ==
    \E rendered \in BOOLEAN :
        Update("admin", "ACT", "LOCK", << <<"TOGGLE_FEATURE">>, <<"ADVANCED_PRACTICE">> >>,
               "none", rendered)

OpenUnit ==
    \E u \in Users, rendered \in BOOLEAN :
        Update(u, "NAV", "SCR_QUIZ_PRES", UnitOneParam, "none", rendered)

\* the same request while a query of the lock evaluation raises
OpenUnitFaulty ==
    \E fault \in {"subject", "unit"} :
        Update("student", "NAV", "SCR_QUIZ_PRES", UnitOneParam, fault, TRUE)

ToggleSubject ==
    \E rendered \in BOOLEAN :
        Update("admin", "ACT", "LOCK", << <<"TOGGLE_SUBJECT">>, <<"Biology", "10">> >>,
               "none", rendered)

OpenUnits ==
    \E rendered \in BOOLEAN :
        /\ Shallow("student")
        /\ Update("student", "NAV", "SCR_UNITS", SubjectParam, "none", rendered)

OpenGamesFaulty ==
    /\ Shallow("student")
    /\ Update("student", "NAV", "SCR_GAMEMODE", NoParam, "feature", TRUE)

OpenGames ==
    \E rendered \in BOOLEAN :
        /\ Shallow("student")
        /\ Update("student", "NAV", "SCR_GAMEMODE", NoParam, "none", rendered)

Home ==
    \E rendered \in BOOLEAN :
        Update("student", "NAV", "SCR_HUB", NoParam, "none", rendered)

Back ==
    \E rendered \in BOOLEAN :
        Update("student", "NAV", "BACK", NoParam, "none", rendered)

NextBatch ==
    \E rendered \in BOOLEAN :
        /\ Shallow("student")
        /\ Update("student", "ACT", "QUIZ", << <<"LOAD_NEW_BATCH">> >>, "none", rendered)

\* a callback "ACT|QUIZ" without a parameter
BareAction ==
    Update("student", "ACT", "QUIZ", NoParam, "none", TRUE)

NextLock ==
    \/ ToggleUnit \/ ToggleFeature \/ ToggleSubject
    \/ OpenUnit \/ OpenUnitFaulty \/ OpenUnits \/ OpenGames \/ OpenGamesFaulty
    \/ Home \/ Back \/ NextBatch
    \/ BareAction

SpecLock == Init /\ [][NextLock]_vars


(***************************************************************************)
(* Progress: completeBatch (update_phase_progress) and recordAttempt       *)
(* (record_quiz_attempt) called for one learner.                           *)
(***************************************************************************)
MaxAttempts == 2

UnitOneId == <<"BIO", "Grade10", "1">>
UnitTwoId == <<"BIO", "Grade10", "2">>
Phases == {"BASELINE", "BALANCED", "EXAM_BIASED"}
Accuracies == {<<79, 1>>, <<80, 1>>}

\* questions_attempted of the (user, unit) row, 0 while there is none
Attempted(table, user_id, unit_id) ==
    IF ProgressRowsOf(table, user_id, unit_id) = {} THEN 0
    ELSE table[MinOf(ProgressRowsOf(table, user_id, unit_id))].questions_attempted

Correct(table, user_id, unit_id) ==
    IF ProgressRowsOf(table, user_id, unit_id) = {} THEN 0
    ELSE table[MinOf(ProgressRowsOf(table, user_id, unit_id))].questions_correct

CompleteBatch ==
    \E phase \in Phases, accuracy \in Accuracies :
        /\ progress' = update_phase_progress(progress, "student", UnitOneId,
                                             phase, accuracy)
        /\ last' = [call |-> "update_phase_progress", user |-> "student",
                    unit_id |-> UnitOneId, phase |-> phase,
                    accuracy |-> accuracy]
        /\ UNCHANGED <<sessions, locks, review, clock, users, dispatcher>>

RecordAttempt ==
    \E unit_id \in {UnitOneId, UnitTwoId}, correct \in BOOLEAN :
        /\ Attempted(progress, "student", unit_id) < MaxAttempts
        /\ progress' = record_quiz_attempt(progress, "student", unit_id, correct)
        /\ last' = [call |-> "record_quiz_attempt", user |-> "student",
                    unit_id |-> unit_id, correct |-> correct]
        /\ UNCHANGED <<sessions, locks, review, clock, users, dispatcher>>

NextProgress == CompleteBatch \/ RecordAttempt

SpecProgress == Init /\ [][NextProgress]_vars

(***************************************************************************)
(* Review queue: add and remove called for two learners' questions.        *)
(***************************************************************************)
Statuses == {"SKIPPED", "MISTAKE", "PINNED"}
ReviewQuestions == {<<"Unit 1", 1>>, <<"Unit 1", 2>>}

AddReview ==
    \E u \in Users, q \in ReviewQuestions, status \in Statuses :
        /\ review' = add_to_review_queue(review, u, q, status)
        /\ last' = [call |-> "add_to_review_queue", user |-> u,
                    question_id |-> q, status |-> status]
        /\ UNCHANGED <<sessions, locks, progress, clock, users, dispatcher>>

RemoveReview ==
    \E u \in Users, q \in ReviewQuestions :
        /\ review' = remove_from_review_queue(review, u, q)
        /\ last' = [call |-> "remove_from_review_queue", user |-> u,
                    question_id |-> q]
        /\ UNCHANGED <<sessions, locks, progress, clock, users, dispatcher>>

NextReview == AddReview \/ RemoveReview

SpecReview == Init /\ [][NextReview]_vars

(***************************************************************************)
(* Quiz: one learner working through the batch of Unit 1 or of Unit 2, one *)
(* answer per question.                                                    *)
(***************************************************************************)
QuizOf(u) == sessions[u].quiz_state

StartQuiz ==
    /\ QuizOf("student") = NoRow
    /\ \E param \in {UnitOneParam, UnitTwoParam}, rendered \in BOOLEAN :
          Update("student", "NAV", "SCR_QUIZ_PRES", param, "none", rendered)

Answer ==
    /\ QuizOf("student") # NoRow
    /\ QuizOf("student").current_index < Len(QuizOf("student").questions)
    /\ Len(QuizOf("student").history) = QuizOf("student").current_index
    /\ \E opt \in Options :
          Update("student", "ANS", "QUIZ", << <<opt>> >>, "none", TRUE)

LoadNext ==
    /\ QuizOf("student") # NoRow
    /\ Len(QuizOf("student").history) = QuizOf("student").current_index + 1
    /\ \E rendered \in BOOLEAN :
          Update("student", "ACT", "QUIZ", << <<"LOAD_NEXT">> >>, "none", rendered)

NextQuiz == StartQuiz \/ Answer \/ LoadNext

SpecQuiz == Init /\ [][NextQuiz]_vars

(***************************************************************************)
(* Games: one learner starting survival and speedrun runs, answering      *)
(* their questions and now and then opening the quiz of Unit 1, while the  *)
(* wall clock advances a second at a time.  The speedrun is the legacy     *)
(* callback for 3 seconds and 3 Biology questions.                         *)
(***************************************************************************)
MaxClock == 6

\* the learner stops answering once this much XP is earned
MaxXp == 60

SpeedrunParam == << <<"START_3", "BIO", "3">> >>
SurvivalParam == << <<"START_BIO">> >>

StartSurvival ==
    \E shuffle \in Shuffles :
        UpdateWith("student", "ACT", "SURVIVAL", SurvivalParam, "none", TRUE, shuffle)

StartSpeedrun ==
    \E shuffle \in Shuffles :
        UpdateWith("student", "ACT", "SPEEDRUN", SpeedrunParam, "none", TRUE, shuffle)

StartUnit ==
    Update("student", "NAV", "SCR_QUIZ_PRES", UnitOneParam, "none", TRUE)

GameAnswer ==
    /\ QuizOf("student") # NoRow
    /\ QuizOf("student").mode \in {"SPEEDRUN", "SURVIVAL"}
    /\ users["student"].total_xp < MaxXp
    /\ \E opt \in Options :
          Update("student", "ANS", "QUIZ", << <<opt>> >>, "none", TRUE)

Tick ==
    /\ clock < MaxClock
    /\ clock' = clock + 1
    /\ UNCHANGED <<sessions, locks, progress, review, last, users, dispatcher>>

NextGame == StartSurvival \/ StartSpeedrun \/ StartUnit \/ GameAnswer \/ Tick

SpecGame == Init /\ [][NextGame]_vars

(***************************************************************************)
(* Session: one learner in the quiz of Unit 1 whose taps are not held to   *)
(* the screen shown: answer, skip and next buttons of earlier messages are *)
(* pressed again, the learner goes home and comes back, and the quiz is    *)
(* opened anew.                                                            *)
(***************************************************************************)
MaxAnswers == 1

OpenQuiz ==
    Update("student", "NAV", "SCR_QUIZ_PRES", UnitOneParam, "none", TRUE)

AnswerAny ==
    /\ QuizOf("student") # NoRow
    /\ Attempted(progress, "student", <<"Unit 1">>) < MaxAnswers
    /\ \E opt \in Options :
          Update("student", "ANS", "QUIZ", << <<opt>> >>, "none", TRUE)

NextAny ==
    /\ QuizOf("student") # NoRow
    /\ QuizOf("student").current_index <= Len(QuizOf("student").questions)
    /\ Update("student", "ACT", "QUIZ", << <<"LOAD_NEXT">> >>, "none", TRUE)

\* skip pressed on the last question or after it
SkipLate ==
    /\ QuizOf("student") # NoRow
    /\ QuizOf("student").current_index + 1 >= Len(QuizOf("student").questions)
    /\ Len(QuizOf("student").history) < MaxAnswers
    /\ Update("student", "ACT", "QUIZ", << <<"SKIP">> >>, "none", TRUE)

GoHome ==
    \E rendered \in BOOLEAN :
        Update("student", "NAV", "SCR_HUB", NoParam, "none", rendered)

NextSession == OpenQuiz \/ AnswerAny \/ NextAny \/ SkipLate \/ GoHome

SpecSession == Init /\ [][NextSession]_vars

(***************************************************************************)
(* Retry: one learner in the first questions of Unit 1 who answers a       *)
(* question more than once, in the same run or after opening the quiz      *)
(* again.                                                                  *)
(***************************************************************************)
MaxTries == 2

Reopen ==
    Update("student", "NAV", "SCR_QUIZ_PRES", UnitOneParam, "none", TRUE)

TryAnswer ==
    /\ QuizOf("student") # NoRow
    /\ Attempted(progress, "student", <<"Unit 1">>) < MaxTries
    /\ \E opt \in Options :
          Update("student", "ANS", "QUIZ", << <<opt>> >>, "none", TRUE)

TryNext ==
    /\ QuizOf("student") # NoRow
    /\ QuizOf("student").current_index < MaxTries
    /\ Update("student", "ACT", "QUIZ", << <<"LOAD_NEXT">> >>, "none", TRUE)

NextRetry == Reopen \/ TryAnswer \/ TryNext

SpecRetry == Init /\ [][NextRetry]_vars

(***************************************************************************)
(* Streak: update_user_streak called for one learner after gaps around     *)
(* the 24 hour and 48 hour boundaries.                                     *)
(***************************************************************************)
StreakDays == 8

Gaps == {0, Hours24 - 1, Hours24, Hours48 - 1, Hours48}

UpdateStreak ==
    \E gap \in Gaps :
        /\ clock + gap <= StreakDays * Hours24
        /\ clock' = clock + gap
        /\ users' = update_user_streak(users, "student", clock')
        /\ last' = [call |-> "update_user_streak", user |-> "student",
                    gap |-> clock' - users["student"].last_activity,
                    returned |-> users'["student"].streak_count]
        /\ UNCHANGED <<sessions, locks, progress, review, dispatcher>>

NextStreak == UpdateStreak

SpecStreak == Init /\ [][NextStreak]_vars

(***************************************************************************)
(* Run: a new learner playing one survival or speedrun run from its start  *)
(* to its summary while the wall clock advances.                           *)
(***************************************************************************)
StartRun ==
    /\ QuizOf("student") = NoRow
    /\ StartSurvival \/ StartSpeedrun

RunAnswer ==
    /\ last.shown \notin GameSummaries
    /\ GameAnswer

NextRun == StartRun \/ RunAnswer \/ Tick

SpecRun == Init /\ [][NextRun]_vars

(***************************************************************************)
(* Dispatch: taps of one learner in the quiz of Unit 1 reach the Updater's *)
(* update_queue while earlier taps are still waiting or being handled.  A  *)
(* handler reads quiz_state when it begins and writes it when it finishes  *)
(* (get_or_create_session ... update_session_state).                       *)
(***************************************************************************)
MaxUpdates == 3

Taps == {[action |-> "ANS", param |-> << <<"A">> >>],
         [action |-> "ANS", param |-> << <<"B">> >>],
         [action |-> "ACT", param |-> << <<"LOAD_NEXT">> >>],
         [action |-> "ACT", param |-> << <<"SKIP">> >>]}

\* mutant: the handler is registered with run_async and starts while
\* another call is in progress
CanStart_Async(running) == TRUE

\* main.py 35-43: route_callback is registered without run_async, so the
\* dispatcher thread takes the next update of update_queue when the call for
\* the one before has returned
CanStart(running) == running = << >>

\* the store after the handler of update h, which read quiz_state `read`
\* when it began, has written its result
Handled(db, h, read) ==
    route_callback([db EXCEPT !.sessions[h.user].quiz_state = read],
                   IsContentLocked(db.locks, h.user, h.action, "QUIZ", h.param,
                                   "none"),
                   h.user, h.action, "QUIZ", h.param, TRUE)

\* s without its i-th element
Without(s, i) == SubSeq(s, 1, i - 1) \o SubSeq(s, i + 1, Len(s))

OpenFirst ==
    /\ QuizOf("student") = NoRow
    /\ Update("student", "NAV", "SCR_QUIZ_PRES", UnitOneParam, "none", TRUE)

\* a tap arrives; behind is the number of earlier taps not yet handled
Arrive ==
    /\ QuizOf("student") # NoRow
    /\ dispatcher.arrived < MaxUpdates
    /\ \E tap \in Taps :
          dispatcher' =
              [dispatcher EXCEPT
                  !.update_queue =
                      Append(@, [user |-> "student", action |-> tap.action,
                                 param |-> tap.param,
                                 behind |-> Len(dispatcher.update_queue)
                                            + Len(dispatcher.running)]),
                  !.arrived = @ + 1]
    /\ UNCHANGED <<sessions, locks, progress, review, last, clock, users>>

Begin ==
    /\ dispatcher.update_queue # << >>
    /\ CanStart(dispatcher.running)
    /\ dispatcher' =
          [dispatcher EXCEPT
              !.update_queue = Tail(@),
              !.running =
                  Append(@, [update |-> Head(dispatcher.update_queue),
                             read |-> QuizOf(Head(dispatcher.update_queue).user)])]
    /\ UNCHANGED <<sessions, locks, progress, review, last, clock, users>>

Finish ==
    \E i \in 1..Len(dispatcher.running) :
    \E out \in {Handled(Store, dispatcher.running[i].update,
                        dispatcher.running[i].read)} :
        /\ sessions' = out.sessions
        /\ progress' = out.progress
        /\ review' = out.review
        /\ users' = out.users
        /\ last' = [user |-> dispatcher.running[i].update.user,
                    action |-> dispatcher.running[i].update.action,
                    screen |-> "QUIZ",
                    param |-> dispatcher.running[i].update.param,
                    behind |-> dispatcher.running[i].update.behind,
                    shown |-> out.shown]
        /\ dispatcher' = [dispatcher EXCEPT !.running = Without(@, i)]
        /\ UNCHANGED <<locks, clock>>

NextDispatch == OpenFirst \/ Arrive \/ Begin \/ Finish

SpecDispatch == Init /\ [][NextDispatch]_vars

(***************************************************************************)
(* Registry: lock toggle callbacks sent by the administrator and by a      *)
(* learner, and the unit quiz opened in between.                           *)
(***************************************************************************)
ToggleParams ==
    {<< <<"TOGGLE_FEATURE">>, <<"ADVANCED_PRACTICE">> >>,
     << <<"TOGGLE_SUBJECT">>, <<"Biology", "10">> >>,
     << <<"TOGGLE_UNIT">>, <<"BIO_G10_U1">> >>}

TogglePress ==
    \E u \in Users, param \in ToggleParams :
        Update(u, "ACT", "LOCK", param, "none", TRUE)

NextRegistry == TogglePress \/ OpenUnit

SpecRegistry == Init /\ [][NextRegistry]_vars

(***************************************************************************)
(* Verdict: the administrator toggles the feature, subject and unit locks  *)
(* and a learner sends callbacks whose screen and param match several of   *)
(* them, also while the query for a later lock kind raises, or whose param *)
(* names the subject without a grade.                                      *)
(***************************************************************************)
MatchingScreens == {"SCR_GAME_PRES", "SCR_QUIZ_PRES"}

\* "BIO": a subject and no grade
BareSubjectParam == << <<"BIO">> >>

AskBareSubject ==
    /\ Shallow("student")
    /\ Update("student", "NAV", "SCR_UNITS", BareSubjectParam, "none", TRUE)

Ask ==
    \E screen \in MatchingScreens :
        /\ Shallow("student")
        /\ Update("student", "NAV", screen, UnitOneParam, "none", TRUE)

\* the feature query works, a later one raises
AskFaultyLater ==
    /\ Shallow("student")
    /\ \/ \E fault \in {"subject", "unit"} :
             Update("student", "NAV", "SCR_GAME_PRES", UnitOneParam, fault, TRUE)
       \/ Update("student", "NAV", "SCR_QUIZ_PRES", UnitOneParam, "unit", TRUE)

NextVerdict ==
    \/ ToggleUnit \/ ToggleFeature \/ ToggleSubject
    \/ Ask \/ AskFaultyLater \/ AskBareSubject

SpecVerdict == Init /\ [][NextVerdict]_vars

(***************************************************************************)
(* Skip: one learner in the quiz of Unit 2 who answers, skips and moves on *)
(* in any order.                                                           *)
(***************************************************************************)
MaxMarks == 3

OpenShort ==
    /\ QuizOf("student") = NoRow
    /\ Update("student", "NAV", "SCR_QUIZ_PRES", UnitTwoParam, "none", TRUE)

MarkAnswer ==
    /\ QuizOf("student") # NoRow
    /\ QuizOf("student").current_index < Len(QuizOf("student").questions)
    /\ Len(QuizOf("student").history) < MaxMarks
    /\ \E opt \in Options :
          Update("student", "ANS", "QUIZ", << <<opt>> >>, "none", TRUE)

MarkSkip ==
    /\ QuizOf("student") # NoRow
    /\ Len(QuizOf("student").history) < MaxMarks
    /\ Update("student", "ACT", "QUIZ", << <<"SKIP">> >>, "none", TRUE)

MarkNext ==
    /\ QuizOf("student") # NoRow
    /\ QuizOf("student").current_index < Len(QuizOf("student").questions)
    /\ Update("student", "ACT", "QUIZ", << <<"LOAD_NEXT">> >>, "none", TRUE)

NextSkip == OpenShort \/ MarkAnswer \/ MarkSkip \/ MarkNext

SpecSkip == Init /\ [][NextSkip]_vars

(***************************************************************************)
(* Store failure: one learner in the quiz of Unit 2 whose answers are      *)
(* handled while the store may refuse the closing quiz_state write.        *)
(***************************************************************************)
MaxFailedAnswers == 3

OpenStored ==
    /\ QuizOf("student") = NoRow
    /\ Update("student", "NAV", "SCR_QUIZ_PRES", UnitTwoParam, "none", TRUE)

StoredAnswer ==
    /\ QuizOf("student") # NoRow
    /\ QuizOf("student").current_index < Len(QuizOf("student").questions)
    /\ Attempted(progress, "student", <<"Unit 2">>) < MaxFailedAnswers
    /\ \E opt \in Options :
          Update("student", "ANS", "QUIZ", << <<opt>> >>, "none", TRUE)

StoredNext ==
    /\ QuizOf("student") # NoRow
    /\ QuizOf("student").current_index < Len(QuizOf("student").questions)
    /\ Update("student", "ACT", "QUIZ", << <<"LOAD_NEXT">> >>, "none", TRUE)

\* an answer handled while the write of line 217 fails
AnswerWriteFails ==
    /\ QuizOf("student") # NoRow
    /\ QuizOf("student").mode = "STANDARD"
    /\ QuizOf("student").current_index < Len(QuizOf("student").questions)
    /\ Attempted(progress, "student", <<"Unit 2">>) < MaxFailedAnswers
    /\ \E opt \in Options :
       \E verdict \in {IsContentLocked(locks, "student", "ANS", "QUIZ",
                                       << <<opt>> >>, "none")} :
       \E out \in {IF verdict.blocked THEN Store
                   ELSE handle_answer_selection_WriteFails(Store, "student", opt)} :
          /\ sessions' = out.sessions
          /\ progress' = out.progress
          /\ review' = out.review
          /\ locks' = out.locks
          /\ last' = [user |-> "student", action |-> "ANS", screen |-> "QUIZ",
                      param |-> << <<opt>> >>, blocked |-> verdict.blocked,
                      reason |-> verdict.reason, raised |-> verdict.raised,
                      shown |-> out.shown, writes |-> out.writes,
                      completions |-> out.completions, xp_reward |-> out.xp_reward,
                      score_shown |-> out.score_shown]
          /\ clock' = clock
          /\ users' = out.users
          /\ dispatcher' = dispatcher

NextStore == OpenStored \/ StoredAnswer \/ StoredNext \/ AnswerWriteFails

SpecStore == Init /\ [][NextStore]_vars

(***************************************************************************)
(* Claims                                                                  *)
(***************************************************************************)
Top(stack) == stack[Len(stack)]

\* C1: after any sequence of navigation operations the persisted
\* navigation_stack of every session holds at most 10 entries.
C1_StackAtMostTen ==
    \A u \in Users : Len(sessions[u].navigation_stack) <= MaxNavStack

\* a pushing navigation has just left the stack full
C1_Witness ==
    /\ Len(sessions["student"].navigation_stack) = MaxNavStack
    /\ last.user = "student" /\ last.action = "NAV" /\ last.screen = "SCR_STATS"
    /\ sessions["student"].current_screen = "SCR_STATS"
    /\ Top(sessions["student"].navigation_stack)[1] # "SCR_STATS"

\* C2: in every reachable session the top of navigation_stack differs from
\* (current_screen, current_param).
C2_TopIsNotCurrent ==
    \A u \in Users :
        sessions[u].navigation_stack # << >> =>
            Top(sessions[u].navigation_stack)
                # <<sessions[u].current_screen, sessions[u].current_param>>

UnitOneLock == <<"UNIT", <<"BIO", "10", "1">> >>

C5_DestinationGated ==
    [][\A u \in Users \ ADMIN_IDS :
          (/\ last'.raised = "no"
           /\ <<sessions'[u].current_screen, sessions'[u].current_param>>
                # <<sessions[u].current_screen, sessions[u].current_param>>)
          => ~IsContentLocked(locks, u, "NAV", sessions'[u].current_screen,
                              sessions'[u].current_param, "none").blocked]_vars

\* C6: an error raised while the locks are evaluated gives (not blocked,
\* empty reason) and the action is applied exactly as with no lock.
C6_FailsOpen ==
    [][last'.raised # "no" =>
          /\ ~last'.blocked
          /\ last'.reason = << >>
          /\ \E out \in {route_callback(Store, NotLocked, last'.user, last'.action,
                                        last'.screen, last'.param, TRUE)} :
                /\ sessions' = out.sessions
                /\ progress' = out.progress
                /\ review' = out.review
                /\ locks' = out.locks
                /\ users' = out.users]_vars

\* the unit is locked, the unit query raised, and the learner's quiz started
C6_Witness ==
    /\ locks[UnitOneLock] = "on"
    /\ last.raised = "caught" /\ last.user = "student"
    /\ last.screen = "SCR_QUIZ_PRES"
    /\ sessions["student"].quiz_state # NoRow
    /\ sessions["student"].quiz_state.unit = "Unit 1"

IsCall(l, name) == "call" \in DOMAIN l /\ l.call = name

PhaseRank(phase) ==
    CASE phase = "BASELINE" -> 1 [] phase = "BALANCED" -> 2 [] OTHER -> 3

\* C7: once unlocked_balanced (or unlocked_exam) of a progress record is
\* true it stays true after any later completeBatch call, whatever its
\* phase and accuracy, and current_phase never moves to a lower phase.
C7_UnlocksStay ==
    [][IsCall(last', "update_phase_progress") =>
          \A i \in 1..Len(progress) :
              /\ i <= Len(progress')
              /\ progress[i].unlocked_balanced => progress'[i].unlocked_balanced
              /\ progress[i].unlocked_exam => progress'[i].unlocked_exam
              /\ PhaseRank(progress'[i].current_phase)
                    >= PhaseRank(progress[i].current_phase)]_vars

\* a record that kept both unlocks and the exam phase although its latest
\* baseline and balanced batches scored below the threshold
C7_Witness ==
    /\ IsCall(last, "update_phase_progress")
    /\ \E i \in 1..Len(progress) :
          /\ progress[i].unlocked_balanced /\ progress[i].unlocked_exam
          /\ progress[i].current_phase = "EXAM_BIASED"
          /\ ~AtLeast(progress[i].baseline_accuracy, PHASE_UNLOCK_THRESHOLD)
          /\ ~AtLeast(progress[i].balanced_accuracy, PHASE_UNLOCK_THRESHOLD)
          /\ progress[i].balanced_accuracy # <<0, 1>>

\* C8: over recordAttempt calls for one (user, unit) the two counters never
\* decrease, a call adds exactly 1 to questions_attempted and 1 to
\* questions_correct only when the answer is correct, and
\* questions_correct <= questions_attempted in every state.
C8_AttemptsMonotonic ==
    [][\A unit_id \in {UnitOneId, UnitTwoId} :
          LET a0 == Attempted(progress, "student", unit_id)
              c0 == Correct(progress, "student", unit_id)
              a1 == Attempted(progress', "student", unit_id)
              c1 == Correct(progress', "student", unit_id)
              called == IsCall(last', "record_quiz_attempt")
                        /\ last'.unit_id = unit_id
          IN  /\ a1 >= a0 /\ c1 >= c0 /\ c1 <= a1
              /\ called => a1 = a0 + 1
              /\ (called /\ last'.correct) => c1 = c0 + 1
              /\ (called /\ ~last'.correct) => c1 = c0]_vars

\* a wrong answer has just been counted after a correct one
C8_Witness ==
    /\ IsCall(last, "record_quiz_attempt") /\ ~last.correct
    /\ Attempted(progress, "student", last.unit_id) = 2
    /\ Correct(progress, "student", last.unit_id) = 1

C10_ScenarioA ==
    LET quiz_state == QuizOf("student")
    IN  (/\ quiz_state # NoRow
         /\ quiz_state.mode = "STANDARD"
         /\ Len(quiz_state.questions) = 10
         /\ quiz_state.current_index = 10
         /\ quiz_state.score = 9)
        => /\ Accuracy(quiz_state)[1] = 90 * Accuracy(quiz_state)[2]
           /\ \E i \in 1..Len(progress) :
                 /\ progress[i].user_id = "student"
                 /\ progress[i].current_phase = "BALANCED"
                 /\ progress[i].unlocked_balanced
                 /\ ~progress[i].unlocked_exam

\* C14: go_back on a session whose navigation_stack is empty leaves
\* current_screen at SCR_HUB with the stack empty, from any state, and a
\* second go_back changes nothing further.
C14_BackOnEmptyIsHome ==
    [][\A u \in Users :
          (/\ last'.user = u /\ last'.action = "NAV" /\ last'.screen = "BACK"
           /\ ~last'.blocked
           /\ sessions[u].navigation_stack = << >>)
          => /\ sessions'[u].current_screen = "SCR_HUB"
             /\ sessions'[u].navigation_stack = << >>
             /\ \A rendered \in BOOLEAN :
                    go_back(sessions'[u], rendered) = sessions'[u]]_vars

\* the learner pressed back with nothing to go back to and is on the hub
C14_Witness ==
    /\ last.user = "student" /\ last.action = "NAV" /\ last.screen = "BACK"
    /\ sessions["student"].current_screen = "SCR_HUB"
    /\ sessions["student"].current_param = NoParam
    /\ sessions["student"].navigation_stack = << >>

\* C15: go_home from any session state, also one with a non-empty
\* navigation_stack, leaves current_screen = SCR_HUB and an empty stack.
C15_HomeIsBaseState ==
    [][\A u \in Users :
          (/\ last'.user = u /\ last'.action = "NAV" /\ last'.screen = "SCR_HUB"
           /\ ~last'.blocked)
          => /\ sessions'[u].current_screen = "SCR_HUB"
             /\ sessions'[u].navigation_stack = << >>]_vars

\* the survival run that is stored for the learner has had no wrong answer
Unbeaten(u) ==
    /\ QuizOf(u) # NoRow
    /\ QuizOf(u).mode = "SURVIVAL"
    /\ QuizOf(u).current_index < Len(QuizOf(u).questions)

\* the option of an answer callback
Chosen(update) == update.param[1][1]

\* the step handles an answer callback of the learner (the clock stands
\* still while an update is handled)
AnswerStep(u) == last'.user = u /\ last'.action = "ANS" /\ clock' = clock

\* C11: in a SURVIVAL run a wrong answer ends the run at once: the game-over
\* summary is shown in place of the next question and the score of the run
\* stays what the correct answers made it; after two correct answers and a
\* wrong answer to question 3 the run is over with score 2.
C11_SurvivalEndsOnFirstMistake ==
    [][(/\ Unbeaten("student")
        /\ AnswerStep("student")
        /\ Chosen(last') # correct_answer(
               QuizOf("student").questions[QuizOf("student").current_index + 1]))
       => /\ last'.shown = "SCR_GAME_SUM|GAME_OVER"
          /\ sessions'["student"].quiz_state.score = QuizOf("student").score
          /\ (QuizOf("student").current_index = 2
                  => sessions'["student"].quiz_state.score = 2)]_vars

\* two correct answers, then a wrong answer to question 3 ended the run
C11_Witness ==
    /\ last.action = "ANS" /\ Chosen(last) = "B"
    /\ last.shown = "SCR_GAME_SUM|GAME_OVER"
    /\ QuizOf("student").mode = "SURVIVAL"
    /\ QuizOf("student").current_index = 2
    /\ QuizOf("student").score = 2

\* C12: in a SPEEDRUN run an answer that arrives more than duration + 2
\* seconds after start_time is rejected: the stored run is unchanged and the
\* time's-up summary is shown.  An answer that arrives within duration + 2
\* seconds is accepted: it moves the run to the next question and counts
\* when it is correct, or, on the last question, ends the run with the
\* completion summary.
C12_SpeedrunDeadline ==
    [][(/\ QuizOf("student") # NoRow
        /\ QuizOf("student").mode = "SPEEDRUN"
        /\ AnswerStep("student"))
       => LET run == QuizOf("student")
              after == sessions'["student"].quiz_state
              q == run.questions[run.current_index + 1]
          IN  IF clock - run.start_time > run.duration + 2
              THEN /\ after.score = run.score
                   /\ after.current_index = run.current_index
                   /\ last'.shown = "SCR_GAME_SUM|TIME_UP"
              ELSE IF run.current_index + 1 >= Len(run.questions)
              THEN last'.shown \in {"SCR_GAME_SUM|COMPLETED", "SCR_GAME_SUM|ALL_DONE"}
              ELSE /\ after.current_index = run.current_index + 1
                   /\ after.score = run.score
                        + (IF Chosen(last') = correct_answer(q) THEN 1 ELSE 0)]_vars

\* an answer was counted in time and the next one, three seconds past the
\* end of the run, was turned away
C12_Witness ==
    /\ last.action = "ANS" /\ last.shown = "SCR_GAME_SUM|TIME_UP"
    /\ QuizOf("student").mode = "SPEEDRUN"
    /\ clock - QuizOf("student").start_time = QuizOf("student").duration + 3
    /\ QuizOf("student").current_index = 1
    /\ QuizOf("student").score = 1

\* the last request of the learner ended the stored run with its summary
RunIsOver(u) ==
    /\ QuizOf(u) # NoRow
    /\ last.user = u
    /\ last.shown \in GameSummaries \cup {"SCR_QUIZ_SUM"}

\* C17: a run that has ended (questions used up, speedrun time exceeded or
\* first wrong answer in survival) is terminal: an answer that arrives
\* afterwards changes neither its score nor its current_index nor its
\* history.
C17_CompleteIsTerminal ==
    [][(RunIsOver("student") /\ AnswerStep("student"))
       => /\ sessions'["student"].quiz_state.score = QuizOf("student").score
          /\ sessions'["student"].quiz_state.current_index
                = QuizOf("student").current_index
          /\ sessions'["student"].quiz_state.history = QuizOf("student").history]_vars

\* the step handles a request of the learner that starts a run: a unit
\* quiz, a survival run or a speedrun
StartStep(u) ==
    /\ last'.user = u /\ ~last'.blocked /\ clock' = clock
    /\ \/ last'.action = "NAV" /\ last'.screen = "SCR_QUIZ_PRES"
       \/ last'.action = "ACT" /\ last'.screen \in {"SURVIVAL", "SPEEDRUN"}

CurrentQuestion(u) == QuizOf(u).questions[QuizOf(u).current_index + 1]

\* the learner has a MISTAKE row for the question
IsMistake(table, u, q) ==
    \E i \in ReviewRowsOf(table, u, q) : table[i].status = "MISTAKE"

\* C13: a wrong answer in a unit quiz leaves the question in the learner's
\* review queue with status MISTAKE; a correct answer to a question that is
\* there as a MISTAKE removes its row, and get_review_queue_counts then
\* reports one MISTAKE fewer.
C13_MistakeQueuedThenCleared ==
    [][(/\ QuizOf("student") # NoRow
        /\ QuizOf("student").mode = "STANDARD"
        /\ QuizOf("student").current_index < Len(QuizOf("student").questions)
        /\ AnswerStep("student") /\ ~last'.blocked)
       => LET q == CurrentQuestion("student")
          IN  IF Chosen(last') # correct_answer(q)
              THEN /\ IsMistake(review', "student", q)
                   /\ Cardinality(ReviewRowsOf(review', "student", q)) = 1
              ELSE /\ ReviewRowsOf(review', "student", q) = {}
                   /\ IsMistake(review, "student", q)
                        => get_review_queue_counts(review', "student")["MISTAKE"]
                            = get_review_queue_counts(review, "student")["MISTAKE"] - 1]_vars

\* question 1 was answered wrongly and then correctly, and is no longer in
\* the queue
C13_Witness ==
    /\ QuizOf("student") # NoRow
    /\ Len(QuizOf("student").history) = 2
    /\ QuizOf("student").history[1].q_id = <<"Unit 1", 1>>
    /\ ~QuizOf("student").history[1].is_correct
    /\ QuizOf("student").history[2].q_id = <<"Unit 1", 1>>
    /\ QuizOf("student").history[2].is_correct
    /\ ReviewRowsOf(review, "student", <<"Unit 1", 1>>) = {}
    /\ last.action = "ANS"

\* the step handles the learner's press of a quiz button: "LOAD_NEXT" or
\* "SKIP"
QuizButtonStep(u, button) ==
    /\ last'.user = u /\ last'.action = "ACT" /\ last'.screen = "QUIZ"
    /\ last'.param = << <<button>> >> /\ ~last'.blocked /\ clock' = clock

\* the stored run of the learner is a unit quiz
InUnitQuiz(u) == QuizOf(u) # NoRow /\ QuizOf(u).mode = "STANDARD"

\* the stored run has no question at its current_index
PastTheList(u) == QuizOf(u).current_index >= Len(QuizOf(u).questions)

\* C16: when current_index is past the stored question list at the time an
\* answer, a skip or a next request is handled, the run is treated as
\* complete (its summary is shown) and no error is raised.
C16_OutOfRangeCompletes ==
    [][(/\ InUnitQuiz("student") /\ PastTheList("student")
        /\ \/ AnswerStep("student") /\ ~last'.blocked
           \/ QuizButtonStep("student", "SKIP")
           \/ QuizButtonStep("student", "LOAD_NEXT"))
       => last'.shown = "SCR_QUIZ_SUM"]_vars

\* C18: in a unit quiz an answer leaves current_index on the answered
\* question, shows the feedback screen and appends one entry to history;
\* a next request advances current_index by exactly 1 and leaves history
\* alone.
C18_AnswerStaysNextAdvances ==
    [][InUnitQuiz("student")
       => LET run == QuizOf("student")
              after == sessions'["student"].quiz_state
          IN  /\ (AnswerStep("student") /\ ~last'.blocked /\ ~PastTheList("student"))
                 => /\ after.current_index = run.current_index
                    /\ Len(after.history) = Len(run.history) + 1
                    /\ after.history[Len(after.history)].q_id
                          = CurrentQuestion("student")
                    /\ SubSeq(after.history, 1, Len(run.history)) = run.history
                    /\ last'.shown = "SCR_QUIZ_FB"
              /\ QuizButtonStep("student", "LOAD_NEXT")
                 => /\ after.current_index = run.current_index + 1
                    /\ after.history = run.history]_vars

\* question 3 was answered, and the next request after it moved the run to
\* question 4
C18_Witness ==
    /\ last.action = "ACT" /\ last.param = << <<"LOAD_NEXT">> >>
    /\ InUnitQuiz("student")
    /\ QuizOf("student").current_index = 3
    /\ Len(QuizOf("student").history) = 1
    /\ QuizOf("student").history[1].q_id = <<"Unit 1", 3>>

\* C20: when the learner returns from a quiz to the hub, the quiz_state of
\* the session is discarded.
C20_LeavingDiscardsRun ==
    [][(/\ last'.user = "student" /\ last'.action = "NAV"
        /\ last'.screen = "SCR_HUB" /\ ~last'.blocked
        /\ sessions'["student"].current_screen = "SCR_HUB")
       => sessions'["student"].quiz_state = NoRow]_vars

\* the question of a stored run belongs to a unit, or to a subject of a
\* grade, whose lock is active
QuestionLocked(lk, run, q) ==
    \/ ActiveLock(lk, "UNIT", <<run.subject_code, TokStripGrade(run.grade),
                               TokStripUnit(q[1])>>)
    \/ ActiveLock(lk, "SUBJECT", <<run.subject, TokStripGrade(run.grade)>>)

\* C21: no start operation gives a non-admin a quiz_state with a question
\* of a unit or of a grade-qualified subject whose lock is active when the
\* run starts (the lock evaluation itself not raising).
C21_StartsAreLockAware ==
    [][\A u \in Users \ ADMIN_IDS :
          (/\ last'.raised = "no"
           /\ sessions'[u].quiz_state # NoRow
           /\ sessions'[u].quiz_state # sessions[u].quiz_state
           /\ sessions'[u].quiz_state.current_index = 0
           /\ sessions'[u].quiz_state.history = << >>)
          => \A i \in 1..Len(sessions'[u].quiz_state.questions) :
                ~QuestionLocked(locks, sessions'[u].quiz_state,
                                sessions'[u].quiz_state.questions[i])]_vars

\* C22: update_phase_progress and update_user_streak are called once for a
\* completed batch: a next or skip request that arrives after the summary
\* of the run was shown calls them no more.
C22_BatchCompletedOnce ==
    [][(/\ InUnitQuiz("student") /\ RunIsOver("student")
        /\ \/ QuizButtonStep("student", "LOAD_NEXT")
           \/ QuizButtonStep("student", "SKIP"))
       => last'.completions = 0]_vars

\* the progress row of (user, unit) in a table, the column defaults while
\* there is none
RowOf(table, user_id, unit_id) ==
    IF ProgressRowsOf(table, user_id, unit_id) = {}
    THEN NewProgress(user_id, unit_id)
    ELSE table[MinOf(ProgressRowsOf(table, user_id, unit_id))]

AccuracyOf(row, phase) ==
    CASE phase = "BASELINE" -> row.baseline_accuracy
      [] phase = "BALANCED" -> row.balanced_accuracy
      [] OTHER -> row.exam_accuracy

\* C23: completeBatch(phase, accuracy) records the accuracy for the named
\* phase; with accuracy >= 80 (80 included) BASELINE sets unlocked_balanced
\* and BALANCED sets unlocked_exam, EXAM_BIASED sets nothing; with
\* accuracy < 80 both flags are unchanged; afterwards current_phase is the
\* highest unlocked phase.
C23_CompleteBatchContract ==
    [][IsCall(last', "update_phase_progress") =>
          LET before == RowOf(progress, last'.user, last'.unit_id)
              after == RowOf(progress', last'.user, last'.unit_id)
              passed == last'.accuracy[1] >= 80 * last'.accuracy[2]
          IN  /\ ProgressRowsOf(progress', last'.user, last'.unit_id) # {}
              /\ AccuracyOf(after, last'.phase) = last'.accuracy
              /\ after.unlocked_balanced =
                    (before.unlocked_balanced \/ (passed /\ last'.phase = "BASELINE"))
              /\ after.unlocked_exam =
                    (before.unlocked_exam \/ (passed /\ last'.phase = "BALANCED"))
              /\ after.current_phase =
                    IF after.unlocked_exam THEN "EXAM_BIASED"
                    ELSE IF after.unlocked_balanced THEN "BALANCED"
                    ELSE "BASELINE"]_vars

\* a BALANCED batch of exactly 80 has unlocked the exam phase
C23_Witness ==
    /\ IsCall(last, "update_phase_progress")
    /\ last.phase = "BALANCED" /\ last.accuracy = <<80, 1>>
    /\ RowOf(progress, "student", UnitOneId).unlocked_exam
    /\ RowOf(progress, "student", UnitOneId).current_phase = "EXAM_BIASED"
    /\ RowOf(progress, "student", UnitOneId).balanced_accuracy = <<80, 1>>

\* C24: updateStreak compares now to last_activity: under 24 h the streak is
\* unchanged, from 24 h to under 48 h it grows by exactly 1, from 48 h on it
\* is 1; last_activity becomes now and the new streak_count is returned.
C24_StreakByGap ==
    [][IsCall(last', "update_user_streak") =>
          LET before == users["student"]
              after == users'["student"]
              gap == clock' - before.last_activity
          IN  /\ gap < 86400 => after.streak_count = before.streak_count
              /\ (86400 <= gap /\ gap < 172800)
                    => after.streak_count = before.streak_count + 1
              /\ gap >= 172800 => after.streak_count = 1
              /\ after.last_activity = clock'
              /\ last'.returned = after.streak_count]_vars

\* a gap of exactly 24 hours has raised a streak of 1 to 2
C24_Witness ==
    /\ IsCall(last, "update_user_streak")
    /\ last.gap = 86400
    /\ users["student"].streak_count = 2
    /\ users["student"].last_activity = clock

\* C25: when the summary of a standard quiz batch is shown, the XP the
\* learner was given for the batch (the learner had none before it) is
\* floor(accuracy / 10) * 10 with accuracy = score / total * 100.
C25_BatchXpIsTenPerTenPercent ==
    (/\ last.shown = "SCR_QUIZ_SUM"
     /\ QuizOf("student") # NoRow)
    => users["student"].total_xp = xp_gained(Accuracy(QuizOf("student")))

\* C26: when the summary of a SPEEDRUN or SURVIVAL run is shown, the XP it
\* reports (15 or 20 for each correct answer) is the XP that was added to
\* the learner's total during the run (the learner had none before it).
C26_GameXpReportedIsAdded ==
    (/\ last.shown \in GameSummaries
     /\ QuizOf("student") # NoRow
     /\ QuizOf("student").mode \in {"SPEEDRUN", "SURVIVAL"})
    => last.xp_reward = users["student"].total_xp

\* C27: handlers of one learner's taps do not interleave their
\* read-modify-write of quiz_state: when the handler of a tap finishes,
\* current_index, score and history are what the tap makes of the
\* quiz_state the handlers finished before it left, so the taps take effect
\* one after the other (no lost update, double advance or lost history
\* entry).
C27_TapsTakeEffectInTurn ==
    [][Len(dispatcher'.running) < Len(dispatcher.running) =>
          \E i \in 1..Len(dispatcher.running) :
              LET h == dispatcher.running[i].update
                  serial == Handled(Store, h, QuizOf(h.user)).sessions[h.user].quiz_state
                  after == sessions'[h.user].quiz_state
              IN  /\ dispatcher'.running = Without(dispatcher.running, i)
                  /\ after.current_index = serial.current_index
                  /\ after.score = serial.score
                  /\ after.history = serial.history]_vars

\* two next taps were waiting together and both have been handled: the
\* quiz is two questions on
C27_Witness ==
    /\ dispatcher.update_queue = << >> /\ dispatcher.running = << >>
    /\ "behind" \in DOMAIN last /\ last.behind = 1
    /\ last.param = << <<"LOAD_NEXT">> >>
    /\ QuizOf("student").current_index = 2
    /\ QuizOf("student").history = << >>

\* C28: a lock toggle request (FEATURE, SUBJECT or UNIT) of a user who is
\* not in ADMIN_IDS leaves every system_locks row as it was.
C28_OnlyAdminsToggle ==
    [][(/\ last'.user \notin ADMIN_IDS
        /\ last'.action = "ACT" /\ last'.screen = "LOCK")
       => locks' = locks]_vars

\* the last update was the learner's request for Unit 1 on this screen
Asked(screen) ==
    /\ last.user = "student" /\ last.action = "NAV"
    /\ last.screen = screen /\ last.param = UnitOneParam

\* C29: when several active locks match one request the evaluator reports
\* the first match in the order FEATURE, grade-qualified SUBJECT, UNIT, and
\* a matched kind ends the evaluation: the queries for the later kinds are
\* not made (a failure of theirs does not show).
C29_FirstMatchInOrder ==
    LET feature == locks[<<"FEATURE", <<"ADVANCED_PRACTICE">> >>] = "on"
        subject == locks[<<"SUBJECT", <<"Biology", "10">> >>] = "on"
        unit == locks[<<"UNIT", <<"BIO", "10", "1">> >>] = "on"
    IN  /\ (Asked("SCR_GAME_PRES") /\ feature)
              => /\ last.raised = "no" /\ last.blocked
                 /\ last.reason = <<"LOCKED", "FEATURE", <<"ADVANCED_PRACTICE">> >>
        /\ (Asked("SCR_QUIZ_PRES") /\ subject)
              => /\ last.raised = "no" /\ last.blocked
                 /\ last.reason = <<"LOCKED", "SUBJECT", <<"Biology", "10">> >>
        /\ (Asked("SCR_GAME_PRES") /\ ~feature /\ subject /\ last.raised = "no")
              => /\ last.blocked
                 /\ last.reason = <<"LOCKED", "SUBJECT", <<"Biology", "10">> >>
        /\ ((Asked("SCR_GAME_PRES") \/ Asked("SCR_QUIZ_PRES"))
            /\ ~(feature /\ last.screen = "SCR_GAME_PRES") /\ ~subject /\ unit
            /\ last.raised = "no")
              => /\ last.blocked
                 /\ last.reason = <<"LOCKED", "UNIT", << >> >>

\* all three locks are active and match the request: FEATURE is reported
C29_Witness ==
    /\ Asked("SCR_GAME_PRES")
    /\ locks[<<"FEATURE", <<"ADVANCED_PRACTICE">> >>] = "on"
    /\ locks[<<"SUBJECT", <<"Biology", "10">> >>] = "on"
    /\ locks[<<"UNIT", <<"BIO", "10", "1">> >>] = "on"
    /\ last.blocked
    /\ last.reason = <<"LOCKED", "FEATURE", <<"ADVANCED_PRACTICE">> >>

\* C30: a content-screen transition whose param names a subject and no
\* grade is checked against the SUBJECT lock of the acting user's own
\* current grade: for a non-admin it is blocked exactly when that lock is
\* active.
C30_OwnGradeQualifiesSubject ==
    (/\ last.user = "student" /\ last.action = "NAV"
     /\ last.screen = "SCR_UNITS" /\ last.param = BareSubjectParam
     /\ last.raised = "no")
    => (last.blocked <=>
            locks[<<"SUBJECT", <<"Biology", current_grade("student")>> >>] = "on")

\* C34: when the answer to the last question of a SPEEDRUN or SURVIVAL run
\* ends the run, the score the completion summary reports is the number of
\* questions answered correctly in the run, the last answer included.
C34_FinalScoreCountsLastAnswer ==
    [][(/\ QuizOf("student") # NoRow
        /\ QuizOf("student").mode \in {"SPEEDRUN", "SURVIVAL"}
        /\ AnswerStep("student")
        /\ QuizOf("student").current_index + 1 = Len(QuizOf("student").questions)
        /\ last'.shown \in {"SCR_GAME_SUM|ALL_DONE", "SCR_GAME_SUM|COMPLETED"})
       => LET run == QuizOf("student")
              q == run.questions[run.current_index + 1]
          IN  last'.score_shown =
                  run.score + (IF Chosen(last') = correct_answer(q) THEN 1 ELSE 0)]_vars

\* C40: an answer given in a SPEEDRUN or SURVIVAL run changes only the
\* quiz_state of the session and the XP of the user: the progress table, the
\* review queue and the rest of the session are as before.
C40_GameAnswersTouchNoRecords ==
    [][(/\ QuizOf("student") # NoRow
        /\ QuizOf("student").mode \in {"SPEEDRUN", "SURVIVAL"}
        /\ AnswerStep("student"))
       => /\ progress' = progress
          /\ review' = review
          /\ locks' = locks
          /\ [sessions' EXCEPT !["student"].quiz_state = QuizOf("student")] = sessions
          /\ \A u \in Users :
                [users'[u] EXCEPT !.total_xp = users[u].total_xp] = users[u]]_vars

\* a correct answer in a survival run was counted and paid
C40_Witness ==
    /\ last.user = "student" /\ last.action = "ANS" /\ Chosen(last) = "A"
    /\ QuizOf("student") # NoRow
    /\ QuizOf("student").mode = "SURVIVAL"
    /\ QuizOf("student").score = 1
    /\ users["student"].total_xp = 20
    /\ progress = << >> /\ review = << >>

C33_OneRecordPerUnit ==
    (/\ last.shown = "SCR_QUIZ_SUM"
     /\ QuizOf("student") # NoRow)
    => /\ Cardinality({i \in 1..Len(progress) : progress[i].user_id = "student"}) = 1
       /\ Attempted(progress, "student", QuizOf("student").unit_id)
             = Len(QuizOf("student").history)

\* the last 10 entries of a stack
TenMostRecent(stack) ==
    IF Len(stack) > 10 THEN SubSeq(stack, Len(stack) - 9, Len(stack)) ELSE stack

\* C35: a transition with addToStack true (NAV|SCR_STATS|9) to a screen
\* other than the current one appends exactly (previous current_screen,
\* previous current_param) to navigation_stack and keeps the 10 most recent
\* entries in order; with addToStack false (the settings screen after a
\* toggle), or when the requested screen is the current one, the stack is
\* unchanged.
C35_PushOnTransition ==
    [][LET before == sessions["student"]
           after == sessions'["student"]
       IN  /\ (/\ last'.user = "student" /\ last'.action = "NAV"
               /\ last'.screen = "SCR_STATS"
               /\ after.current_screen = "SCR_STATS")
              => after.navigation_stack =
                    IF before.current_screen # "SCR_STATS"
                    THEN TenMostRecent(Append(before.navigation_stack,
                                              <<before.current_screen,
                                                before.current_param>>))
                    ELSE before.navigation_stack
           /\ (/\ last'.user = "student" /\ last'.action = "ACT"
               /\ last'.screen = "SET")
              => after.navigation_stack = before.navigation_stack]_vars

\* a push onto a full stack dropped the oldest entry
C35_Witness ==
    /\ last.user = "student" /\ last.action = "NAV" /\ last.screen = "SCR_STATS"
    /\ sessions["student"].current_screen = "SCR_STATS"
    /\ Len(sessions["student"].navigation_stack) = 10
    /\ sessions["student"].navigation_stack[10] = <<"SCR_SETTINGS", NoParam>>
    /\ sessions["student"].navigation_stack[1] = <<"SCR_SETTINGS", NoParam>>

\* C36: go_back (NAV|BACK) on a non-empty navigation_stack removes exactly
\* the most recent entry, makes it the current screen and param and pushes
\* nothing: the stack afterwards is the previous stack without its top.
C36_BackPopsTop ==
    [][LET before == sessions["student"]
           after == sessions'["student"]
           n == Len(before.navigation_stack)
       IN  (/\ last'.user = "student" /\ last'.action = "NAV"
            /\ last'.screen = "BACK"
            /\ before.navigation_stack # << >>)
           => /\ Len(after.navigation_stack) = n - 1
              /\ after.navigation_stack = SubSeq(before.navigation_stack, 1, n - 1)
              /\ after.current_screen = before.navigation_stack[n][1]
              /\ after.current_param = before.navigation_stack[n][2]]_vars

\* the learner went back to the settings screen with an older entry still
\* on the stack
C36_Witness ==
    /\ last.user = "student" /\ last.action = "NAV" /\ last.screen = "BACK"
    /\ sessions["student"].current_screen = "SCR_SETTINGS"
    /\ sessions["student"].navigation_stack = << <<"SCR_HUB", NoParam>> >>

\* C37: in every reachable quiz_state holding a question list,
\* 0 <= current_index <= len(questions): no sequence of answer, skip, next
\* and replay requests moves current_index past the end of the list.
C37_IndexWithinList ==
    QuizOf("student") # NoRow
    => /\ QuizOf("student").current_index >= 0
       /\ QuizOf("student").current_index <= Len(QuizOf("student").questions)

\* C38: within one run each question contributes at most one point to
\* score and at most one entry to history, so score <= len(questions) and
\* accuracy <= 100 in every reachable state, even when an answer request
\* for the same question arrives again before next.
C38_OnePointPerQuestion ==
    LET quiz_state == QuizOf("student")
    IN  quiz_state # NoRow
        => /\ \A i, j \in 1..Len(quiz_state.history) :
                 quiz_state.history[i].q_id = quiz_state.history[j].q_id => i = j
           /\ quiz_state.score <= Len(quiz_state.questions)
           /\ Accuracy(quiz_state)[1] <= 100 * Accuracy(quiz_state)[2]

\* C39: in every reachable progress record unlocked_exam implies
\* unlocked_balanced, and current_phase is EXAM_BIASED only for a unit whose
\* BALANCED phase has been unlocked.
C39_ExamNeedsBalanced ==
    \A i \in 1..Len(progress) :
        /\ progress[i].unlocked_exam => progress[i].unlocked_balanced
        /\ progress[i].current_phase = "EXAM_BIASED" => progress[i].unlocked_balanced

\* C31: when a store write fails while an action is handled (the quiz_state
\* write at the end of answer handling), the action is not applied: XP,
\* progress counters, review items and the session are what they were
\* before the action.
C31_FailedWriteAppliesNothing ==
    [][(/\ AnswerStep("student")
        /\ QuizOf("student") # NoRow
        /\ QuizOf("student").current_index < Len(QuizOf("student").questions)
        /\ last'.shown = "ERROR")
       => /\ users' = users
          /\ progress' = progress
          /\ review' = review
          /\ sessions' = sessions]_vars

====
